---- MODULE Spec2Model ----
(***************************************************************************)
(* Model of the retrieval / grounded-generation / streaming core of        *)
(* DocuIntel:                                                              *)
(*   - the SSE streaming session of GET /api/ai/stream                     *)
(*     (nextjs-app/app/api/ai/stream/route.ts), under Spec;                *)
(*   - the in-memory vector index and the retriever                        *)
(*     (nextjs-app/lib/services/langchain-rag.ts), under IndexSpec.        *)
(*                                                                         *)
(* JavaScript runs each piece of code to completion between two awaits,    *)
(* so one action of the streaming session is the code that runs from one   *)
(* await point of the start callback to the next.  The consumer of the     *)
(* stream (Read, Cancel) acts only between those pieces.                   *)
(***************************************************************************)
EXTENDS Integers, Sequences, FiniteSets, TLC

VARIABLES
    prompt,        \* searchParams.get('prompt') is a non-empty string
    caseId,        \* searchParams.get('caseId') is a non-empty string
    modeParam,     \* searchParams.get('mode'), "absent" when null or empty
    apiKey,        \* process.env.OPENAI_API_KEY is set
    pc,            \* where the start callback is suspended
    handler,       \* which stream* function is running
    i,             \* loop index of streamMockAnalysis
    fullResponse,  \* streamContractAnalysis / streamChatResponse accumulator
    chunkCount,    \* streamContractAnalysis counter
    provider,      \* what the generation provider has yielded so far
    ctl,           \* the ReadableStream and its default controller
    emitted,       \* events accepted by controller.enqueue, in order
    delivered,     \* events the consumer has read, in order
    ops,           \* the calls the session made, in order
    documents,     \* InMemoryVectorStore.documents, in Map insertion order
    embeddings,    \* InMemoryVectorStore.embeddings, in Map insertion order
    upserts,       \* number of upsert calls made so far
    lastCall,      \* the index call whose result its caller holds, if any
    service,       \* chunkSize and chunkOverlap of the LangChainRAGService
    flows,         \* the ingestDocument and retrieve calls under way
    exchange       \* the request at the middleware and what became of it

streamVars == <<prompt, caseId, modeParam, apiKey, pc, handler, i, fullResponse,
                chunkCount, provider, ctl, emitted, delivered, ops>>
indexVars == <<documents, embeddings, upserts, lastCall>>
ingestVars == <<service, flows>>
edgeVars == <<exchange>>
vars == <<streamVars, indexVars, ingestVars, edgeVars>>

-----------------------------------------------------------------------------
(* Bounds of the model and constants of the program.                       *)

\* Largest number of non-empty deltas the generation provider yields.
MaxDeltas == 40
\* Largest number of empty deltas (role / finish chunks) the provider yields.
MaxEmptyDeltas == 1
\* Number of lines of mockResponse, hence of chunks of the mock path.
NumMockChunks == 35

\* Largest number of chunks upserted into the index in one behaviour.
MaxUpserted == 3
\* Largest k of a search call and largest topK option of a retrieve call.
MaxK == 3
\* this.topK of the exported ragService (private topK: number = 5).
DefaultTopK == 5
\* The default minScore 0.3 of retrieve, in tenths.
DefaultMinScore == 3
\* estimatedAccuracy 0.92, in hundredths.
EstimatedAccuracy == 92

\* Largest number of entries of the context handed to generate.
MaxContext == 4
\* Largest number of pieces of an answer of the generation provider.
MaxPieces == 3
\* The fallback response cites context.slice(0, 3).
FallbackCitations == 3
\* The confidence 0.5 of the fallback response, in hundredths.
FallbackConfidence == 50

\* Largest number of parts of a text handed to ingestDocument.
MaxParts == 4
\* Largest number of chunks handed to batchEmbed by itself.
MaxChunks == 201
\* segmentClauses keeps the segments with s.length > 50.
MinSegmentLength == 50
\* private chunkSize: number = 1000
DefaultChunkSize == 1000
\* private chunkOverlap: number = 200
DefaultChunkOverlap == 200
\* const BATCH_SIZE = 100
BATCH_SIZE == 100
\* authHeader.substring(7): the length of 'Bearer '
BearerLength == 7
\* token.length < 10
MinTokenLength == 10
\* The status of the answer to a preflight request
NoContent == 204
\* The status of a response NextResponse.next() stands for
Ok == 200
\* UNAUTHORIZED of the API's error codes
Unauthorized == 401

Nil == "nil"
Modes == {"absent", "analyze", "chat", "summarize", "other"}
ProviderErrors == {"rate limit", "socket hang up"}

\* F of the value of e: e is evaluated once, however often F uses it.
With(e, F(_)) == F(e)

\* The same, with e evaluated before F is.
After(e, F(_)) == CHOOSE r \in {F(x) : x \in {e}} : TRUE

\* const mode = searchParams.get('mode') || 'analyze'
mode == IF modeParam = "absent" THEN "analyze" ELSE modeParam

-----------------------------------------------------------------------------
(* Stream events: the StreamEvent values handed to encoder.encode.  Every  *)
(* event is a record with the same fields; a field an event's payload does *)
(* not have is Nil.                                                        *)

NoEvent ==
    [type |-> Nil, mode |-> Nil, caseId |-> Nil, progress |-> Nil, content |-> Nil,
     chunkIndex |-> Nil, fullResponse |-> Nil, chunkCount |-> Nil,
     totalChunks |-> Nil, responseLength |-> Nil, message |-> Nil]

\* Mutant: the payload always carries the default mode.
ConnectedEvent_DefaultMode ==
    [NoEvent EXCEPT !.type = "connected", !.message = "Stream connected",
                    !.caseId = caseId, !.mode = "analyze"]

ConnectedEvent ==
    [NoEvent EXCEPT !.type = "connected", !.message = "Stream connected",
                    !.caseId = caseId, !.mode = mode]

ErrorEvent(msg) == [NoEvent EXCEPT !.type = "error", !.message = msg]

ProgressEvent(p) == [NoEvent EXCEPT !.type = "progress", !.progress = p]

ChunkEvent(content, index) ==
    [NoEvent EXCEPT !.type = "chunk", !.content = content, !.chunkIndex = index]

AnalysisEvent(full, count) ==
    [NoEvent EXCEPT !.type = "analysis", !.fullResponse = full, !.chunkCount = count]

CompleteEvent(msg, total, len, m) ==
    [NoEvent EXCEPT !.type = "complete", !.message = msg, !.totalChunks = total,
                    !.responseLength = len, !.mode = m]

-----------------------------------------------------------------------------
(* The ReadableStream and its default controller, as the Streams standard  *)
(* defines enqueue, close, error and cancel.  A run is a record            *)
(*   [ctl, emitted, ops, threw]                                            *)
(* threaded through the statements of one piece of code: threw is Nil, or  *)
(* the message of the exception that is propagating.                       *)

NewController == [state |-> "readable", closeRequested |-> FALSE, queue |-> <<>>]

CanCloseOrEnqueue(c) == c.state = "readable" /\ ~c.closeRequested

InvalidState == "Invalid state: Controller is already closed"

\* controller.enqueue(encoder.encode(ev))
Enqueue(r, ev) ==
    IF r.threw # Nil THEN r
    ELSE IF CanCloseOrEnqueue(r.ctl)
    THEN [r EXCEPT !.ctl.queue = Append(@, ev),
                   !.emitted = Append(@, ev),
                   !.ops = Append(@, "enqueue")]
    ELSE [r EXCEPT !.ops = Append(@, "enqueue_throws"), !.threw = InvalidState]

\* controller.close()
Close(r) ==
    IF r.threw # Nil THEN r
    ELSE IF CanCloseOrEnqueue(r.ctl)
    THEN [r EXCEPT !.ctl.closeRequested = TRUE,
                   !.ctl.state = IF r.ctl.queue = <<>> THEN "closed" ELSE "readable",
                   !.ops = Append(@, "close")]
    ELSE [r EXCEPT !.ops = Append(@, "close_throws"), !.threw = InvalidState]

\* A call that is logged and changes nothing else (validation, provider call).
Note(r, what) == IF r.threw # Nil THEN r ELSE [r EXCEPT !.ops = Append(@, what)]

\* The awaited provider call or iteration rejects with message e.
Throws(r, e) == [r EXCEPT !.ops = Append(@, "throws: " \o e), !.threw = e]

Run == [ctl |-> ctl, emitted |-> emitted, ops |-> ops, threw |-> Nil]

cancelled == \E n \in 1..Len(ops) : ops[n] = "cancel"

-----------------------------------------------------------------------------
(* GET: the try / catch / finally of the start callback.                   *)

\* Mutant: the catch block swallows the exception without an error event.
CatchFinally_SilentCatch(r) == Close([r EXCEPT !.threw = Nil])

\* catch (error) { controller.enqueue(error event) } finally { controller.close() }
\* applied to the outcome r of the try block.  The finally block runs
\* whether or not the try block or the catch block threw; an exception
\* thrown by the finally block replaces the one that was propagating.
CatchFinally(r) ==
    LET caught == IF r.threw = Nil THEN r
                  ELSE Enqueue([r EXCEPT !.threw = Nil], ErrorEvent(r.threw))
        closed == Close([caught EXCEPT !.threw = Nil])
    IN  IF closed.threw # Nil THEN closed
        ELSE [closed EXCEPT !.threw = caught.threw]

\* The variables a finished run leaves behind: the start promise settles,
\* rejected when an exception escaped the finally block.
Settle(r) ==
    /\ ctl' = r.ctl
    /\ emitted' = r.emitted
    /\ ops' = r.ops
    /\ pc' = IF r.threw # Nil THEN "rejected" ELSE "done"

\* The variables a run leaves behind when it suspends at an await.
Suspend(r, at) ==
    /\ ctl' = r.ctl
    /\ emitted' = r.emitted
    /\ ops' = r.ops
    /\ pc' = at

-----------------------------------------------------------------------------
(* The stream* functions.                                                  *)

\* const chunks = mockResponse.split(/(?<=\n)/): one chunk per line of the
\* canned text; line n of the text is named by its number n.
mockChunks == [n \in 1..NumMockChunks |-> n]

\* Math.round((i / chunks.length) * 100), rounding halves up.
MockProgress(k) == (200 * k + Len(mockChunks)) \div (2 * Len(mockChunks))

\* The n-th non-empty delta of the provider: a text of one or two characters
\* that names n, so that a concatenation shows which deltas it holds and in
\* which order.
Token(n) == IF n % 2 = 0 THEN <<n, n>> ELSE <<n>>

\* Mutant: the progress is not capped.
AnalysisProgress_Uncapped(count) == 30 + count * 2

\* Math.min(30 + (chunkCount * 2), 90)
AnalysisProgress(count) == IF 30 + count * 2 < 90 THEN 30 + count * 2 ELSE 90

\* The first progress event of each handler.
FirstProgress(h) == CASE h = "analysis" -> 10 [] h = "chat" -> 20 [] OTHER -> 15

\* The prefix each handler's catch block puts before the failure message.
ErrorPrefix(h) ==
    CASE h = "analysis" -> "OpenAI streaming failed: "
      [] h = "chat" -> "Chat streaming failed: "
      [] OTHER -> "Summary streaming failed: "

\* switch (mode): the handler of a mode.
HandlerOf(m) ==
    CASE m = "chat" -> "chat" [] m = "summarize" -> "summary" [] OTHER -> "analysis"

\* Mutant: the handler's catch block throws a fixed message.
Rethrow_DropsMessage(r, h) ==
    IF r.threw = Nil THEN r ELSE [r EXCEPT !.threw = "Stream error occurred"]

\* catch (error) { throw new Error(`... failed: ${error.message}`) }
Rethrow(r, h) == IF r.threw = Nil THEN r ELSE [r EXCEPT !.threw = ErrorPrefix(h) \o @]

\* Mutant: the loop reads chunks[i + 1] where it has to read chunks[i].
MockChunkStep_OffByOne(r, k) ==
    Enqueue(r, ChunkEvent(mockChunks[IF k + 2 <= Len(mockChunks) THEN k + 2 ELSE 1], k))

\* The body of streamMockAnalysis's loop up to its await, for index k.
MockChunkStep(r, k) == Enqueue(r, ChunkEvent(mockChunks[k + 1], k))

\* The code after streamMockAnalysis's loop.
MockComplete(r) ==
    Enqueue(r, CompleteEvent("Analysis complete (Demo Mode)", Nil, Nil, "mock"))

\* Mutant: streamContractAnalysis sends its analysis event after the complete
\* event.
HandlerComplete_AnalysisLast(r, h, full, count) ==
    CASE h = "analysis" ->
           Enqueue(Enqueue(r, CompleteEvent("Analysis complete", count, Len(full), Nil)),
                   AnalysisEvent(full, count))
      [] h = "chat" ->
           Enqueue(r, CompleteEvent("Response complete", Nil, Len(full), Nil))
      [] OTHER ->
           Enqueue(r, CompleteEvent("Summary complete", Nil, Nil, Nil))

\* The code after the for-await loop of each handler.
HandlerComplete(r, h, full, count) ==
    CASE h = "analysis" ->
           Enqueue(Enqueue(r, AnalysisEvent(full, count)),
                   CompleteEvent("Analysis complete", count, Len(full), Nil))
      [] h = "chat" ->
           Enqueue(r, CompleteEvent("Response complete", Nil, Len(full), Nil))
      [] OTHER ->
           Enqueue(r, CompleteEvent("Summary complete", Nil, Nil, Nil))

\* The body of the for-await loop of each handler for a non-empty delta, with
\* count the value of chunkCount after its increment.
HandlerDelta(r, h, content, count) ==
    CASE h = "analysis" ->
           LET r1 == Enqueue(r, ChunkEvent(content, count))
           IN  IF count % 10 = 0
               THEN Enqueue(r1, ProgressEvent(AnalysisProgress(count)))
               ELSE r1
      [] OTHER -> Enqueue(r, ChunkEvent(content, Nil))

\* Mutant: the validation branch closes without reporting the error.
ValidationFailure_NoErrorEvent(r) == Close(r)

\* if (!prompt && !caseId) { enqueue(error); controller.close(); return; }
ValidationFailure(r) ==
    Close(Enqueue(r, ErrorEvent("Either prompt or caseId is required")))

-----------------------------------------------------------------------------
(* Actions of the streaming session.                                       *)

StreamInit ==
    /\ prompt \in BOOLEAN
    /\ caseId \in BOOLEAN
    /\ modeParam \in Modes
    /\ apiKey \in BOOLEAN
    /\ pc = "idle"
    /\ handler = Nil
    /\ i = 0
    /\ fullResponse = <<>>
    /\ chunkCount = 0
    /\ provider = [tokens |-> 0, empties |-> 0]
    /\ ctl = NewController
    /\ emitted = <<>>
    /\ delivered = <<>>
    /\ ops = <<>>

\* start(controller), up to its first await or to its end.
Start ==
    /\ pc = "idle"
    /\ LET r1 == Note(Enqueue(Run, ConnectedEvent), "validate")
       IN  IF ~prompt /\ ~caseId
           THEN /\ Settle(CatchFinally(ValidationFailure(r1)))
                /\ UNCHANGED handler
           ELSE IF ~apiKey
           THEN /\ handler' = "mock"
                /\ LET r2 == MockChunkStep(r1, 0)
                   IN  IF r2.threw # Nil THEN Settle(CatchFinally(r2))
                       ELSE Suspend(r2, "mock_sleep")
           ELSE /\ handler' = HandlerOf(mode)
                /\ LET r2 == Enqueue(r1, ProgressEvent(FirstProgress(HandlerOf(mode))))
                   IN  IF r2.threw # Nil THEN Settle(CatchFinally(r2))
                       ELSE Suspend(Note(r2, "create"), "await_create")
    /\ UNCHANGED <<prompt, caseId, modeParam, apiKey, i, fullResponse, chunkCount,
                   provider, delivered>>

\* streamMockAnalysis resumes after its 50 ms sleep.
MockWake ==
    /\ pc = "mock_sleep"
    /\ LET r1 == IF i % 5 = 0 THEN Enqueue(Run, ProgressEvent(MockProgress(i))) ELSE Run
           r2 == IF i + 1 < Len(mockChunks) THEN MockChunkStep(r1, i + 1)
                 ELSE MockComplete(r1)
       IN  IF r2.threw = Nil /\ i + 1 < Len(mockChunks)
           THEN Suspend(r2, "mock_sleep")
           ELSE Settle(CatchFinally(r2))
    /\ i' = i + 1
    /\ UNCHANGED <<prompt, caseId, modeParam, apiKey, handler, fullResponse, chunkCount,
                   provider, delivered>>

\* openai.chat.completions.create resolves with a stream.
CreateResolves ==
    /\ pc = "await_create"
    /\ LET r1 == IF handler = "analysis" THEN Enqueue(Run, ProgressEvent(30)) ELSE Run
       IN  IF r1.threw = Nil THEN Suspend(r1, "await_delta")
           ELSE Settle(CatchFinally(Rethrow(r1, handler)))
    /\ fullResponse' = <<>>
    /\ chunkCount' = 0
    /\ UNCHANGED <<prompt, caseId, modeParam, apiKey, handler, i, provider, delivered>>

\* openai.chat.completions.create rejects.
CreateThrows ==
    /\ pc = "await_create"
    /\ \E e \in ProviderErrors :
         Settle(CatchFinally(Rethrow(Throws(Run, e), handler)))
    /\ UNCHANGED <<prompt, caseId, modeParam, apiKey, handler, i, fullResponse,
                   chunkCount, provider, delivered>>

\* The provider's stream yields a delta with content.
DeltaArrives ==
    /\ pc = "await_delta"
    /\ provider.tokens < MaxDeltas
    /\ LET n == provider.tokens + 1
           r1 == HandlerDelta(Run, handler, Token(n), chunkCount + 1)
       IN  /\ IF r1.threw = Nil THEN Suspend(r1, "await_delta")
              ELSE Settle(CatchFinally(Rethrow(r1, handler)))
           /\ provider' = [provider EXCEPT !.tokens = n]
           /\ fullResponse' = IF handler \in {"analysis", "chat"}
                              THEN fullResponse \o Token(n) ELSE fullResponse
           /\ chunkCount' = IF handler = "analysis" THEN chunkCount + 1 ELSE chunkCount
    /\ UNCHANGED <<prompt, caseId, modeParam, apiKey, handler, i, delivered>>

\* The provider's stream yields a delta without content (content || '' is '').
EmptyDeltaArrives ==
    /\ pc = "await_delta"
    /\ provider.empties < MaxEmptyDeltas
    /\ provider' = [provider EXCEPT !.empties = @ + 1]
    /\ UNCHANGED <<prompt, caseId, modeParam, apiKey, pc, handler, i, fullResponse,
                   chunkCount, ctl, emitted, delivered, ops>>

\* The provider's stream throws while it is iterated.
DeltaThrows ==
    /\ pc = "await_delta"
    /\ \E e \in ProviderErrors :
         Settle(CatchFinally(Rethrow(Throws(Run, e), handler)))
    /\ UNCHANGED <<prompt, caseId, modeParam, apiKey, handler, i, fullResponse,
                   chunkCount, provider, delivered>>

\* The provider's stream ends.
StreamEnds ==
    /\ pc = "await_delta"
    /\ Settle(CatchFinally(Rethrow(
           HandlerComplete(Run, handler, fullResponse, chunkCount), handler)))
    /\ UNCHANGED <<prompt, caseId, modeParam, apiKey, handler, i, fullResponse,
                   chunkCount, provider, delivered>>

\* The start promise was rejected: the stream's reaction to it errors the
\* controller, which drops the queue of a stream that is still readable.
StartRejected ==
    /\ pc = "rejected"
    /\ pc' = "done"
    /\ IF ctl.state = "readable"
       THEN /\ ctl' = [ctl EXCEPT !.state = "errored", !.queue = <<>>]
            /\ ops' = Append(ops, "stream_errored")
       ELSE UNCHANGED <<ctl, ops>>
    /\ UNCHANGED <<prompt, caseId, modeParam, apiKey, handler, i, fullResponse,
                   chunkCount, provider, emitted, delivered>>

\* The consumer reads one event.
Read ==
    /\ pc \notin {"idle", "rejected"}
    /\ ctl.queue # <<>>
    /\ delivered' = Append(delivered, Head(ctl.queue))
    /\ ctl' = [ctl EXCEPT !.queue = Tail(@),
                          !.state = IF ctl.closeRequested /\ Tail(ctl.queue) = <<>>
                                    THEN "closed" ELSE @]
    /\ UNCHANGED <<prompt, caseId, modeParam, apiKey, pc, handler, i, fullResponse,
                   chunkCount, provider, emitted, ops>>

\* The consumer disconnects: the stream is cancelled, its queue is dropped
\* and the cancel() callback of the source runs; it only logs.
Cancel ==
    /\ pc \notin {"idle", "rejected"}
    /\ ctl.state = "readable"
    /\ ctl' = [ctl EXCEPT !.state = "closed", !.queue = <<>>]
    /\ ops' = Append(ops, "cancel")
    /\ UNCHANGED <<prompt, caseId, modeParam, apiKey, pc, handler, i, fullResponse,
                   chunkCount, provider, emitted, delivered>>

StreamNext ==
    \/ Start
    \/ MockWake
    \/ CreateResolves
    \/ CreateThrows
    \/ DeltaArrives
    \/ EmptyDeltaArrives
    \/ DeltaThrows
    \/ StreamEnds
    \/ StartRejected
    \/ Read
    \/ Cancel

-----------------------------------------------------------------------------
(* The vector index: InMemoryVectorStore.                                  *)
(*                                                                         *)
(* A JavaScript Map iterates in the order its keys were first set, and     *)
(* set() on a key it holds keeps the key's place: documents and embeddings *)
(* are sequences of [id, value] entries in that order.                     *)
(*                                                                         *)
(* Embedding vectors have three small integer components.  A similarity is *)
(* kept exact as [nan, num, den2], the number num / sqrt(den2), or NaN.    *)
(* The vectors below give, for one query, different numbers for different  *)
(* vectors, and no number that equals a threshold, so comparing the exact  *)
(* numbers agrees with comparing the floating-point scores of the code.    *)

NoEmbedding == <<>>
Vectors == {<<1, 1, 0>>, <<0, 1, 1>>, <<0, 0, 0>>}
QueryVectors == {<<1, 1, 0>>, <<1, 0, 0>>}
Ids == {"a-0", "a-1", "b-0"}

\* The chunk createChunks makes for an id `${source}-${n}`, with the clause
\* type classifyClauseType gives its content.
Chunk(id, embedding) ==
    [id |-> id,
     source |-> IF id = "b-0" THEN "b" ELSE "a",
     clauseType |-> IF id = "a-1" THEN "general" ELSE "liability",
     embedding |-> embedding]

Chunks == {Chunk(id, e) : id \in Ids, e \in Vectors \cup {NoEmbedding}}

\* Map.prototype.has
MapHas(m, key) == \E n \in 1..Len(m) : m[n].id = key

\* Map.prototype.get of a key the map holds
MapGet(m, key) == m[CHOOSE n \in 1..Len(m) : m[n].id = key].value

\* Mutant: set() moves a key the map holds to the end.
MapSet_MovesToEnd(m, key, value) ==
    Append(SelectSeq(m, LAMBDA e : e.id # key), [id |-> key, value |-> value])

\* Map.prototype.set
MapSet(m, key, value) ==
    IF MapHas(m, key)
    THEN [n \in 1..Len(m) |->
             IF m[n].id = key THEN [id |-> key, value |-> value] ELSE m[n]]
    ELSE Append(m, [id |-> key, value |-> value])

\* The loop body of upsert for one chunk, on store = [documents, embeddings].
upsertOne(store, chunk) ==
    [documents |-> MapSet(store.documents, chunk.id, chunk),
     embeddings |-> IF chunk.embedding # NoEmbedding
                    THEN MapSet(store.embeddings, chunk.id, chunk.embedding)
                    ELSE store.embeddings]

\* Mutant: the loop of upsert is left after its first turn.
upsert_FirstOnly(store, chunks) ==
    IF chunks = <<>> THEN store ELSE upsertOne(store, Head(chunks))

\* upsert(chunks): the store after the loop, which is the loop over the
\* first half of chunks followed by the loop over the rest.
RECURSIVE upsert(_, _)
upsert(store, chunks) ==
    IF chunks = <<>> THEN store
    ELSE IF Len(chunks) = 1 THEN upsertOne(store, chunks[1])
    ELSE After(upsert(store, SubSeq(chunks, 1, Len(chunks) \div 2)),
               LAMBDA half :
                   upsert(half, SubSeq(chunks, Len(chunks) \div 2 + 1, Len(chunks))))

RECURSIVE Dot(_, _)
Dot(a, b) == IF a = <<>> THEN 0 ELSE Head(a) * Head(b) + Dot(Tail(a), Tail(b))

NaN == [nan |-> TRUE, num |-> 0, den2 |-> 0]
Number(num, den2) == [nan |-> FALSE, num |-> num, den2 |-> den2]

\* cosineSimilarity(a, b): dotProduct / (sqrt(normA) * sqrt(normB)), which
\* is 0 / 0 = NaN when a vector has magnitude zero.
cosineSimilarity(a, b) ==
    IF Len(a) # Len(b) THEN Number(0, 1)
    ELSE IF Dot(a, a) * Dot(b, b) = 0 THEN NaN
    ELSE Number(Dot(a, b), Dot(a, a) * Dot(b, b))

\* s < t for two scores that are numbers.
Less(s, t) ==
    LET l == s.num * s.num * t.den2
        r == t.num * t.num * s.den2
    IN  IF s.num >= 0 /\ t.num >= 0 THEN l < r
        ELSE IF s.num < 0 /\ t.num < 0 THEN l > r
        ELSE s.num < t.num

\* score >= tenths / 10, false for NaN.
AtLeastTenths(s, tenths) ==
    /\ ~s.nan
    /\ ~Less(s, Number(tenths, 100))

\* The comparator (a, b) => b.score - a.score as sort reads it: negative
\* when a goes first, positive when b goes first, and +0 when it is NaN.
Compare(a, b) ==
    IF a.score.nan \/ b.score.nan THEN 0
    ELSE IF Less(b.score, a.score) THEN -1
    ELSE IF Less(a.score, b.score) THEN 1
    ELSE 0

\* One step of a stable insertion sort by Compare.
RECURSIVE InsertSorted(_, _)
InsertSorted(sorted, x) ==
    IF sorted = <<>> THEN <<x>>
    ELSE IF Compare(Head(sorted), x) > 0 THEN <<x>> \o sorted
    ELSE <<Head(sorted)>> \o InsertSorted(Tail(sorted), x)

RECURSIVE StableSort(_)
StableSort(rs) ==
    IF rs = <<>> THEN <<>>
    ELSE InsertSorted(StableSort(SubSeq(rs, 1, Len(rs) - 1)), rs[Len(rs)])

\* Compare is a consistent comparator for the elements of rs.
Consistent(rs) ==
    \A a \in 1..Len(rs) : \A b \in 1..Len(rs) : \A c \in 1..Len(rs) :
        (Compare(rs[a], rs[b]) = 0 /\ Compare(rs[b], rs[c]) = 0)
            => Compare(rs[a], rs[c]) = 0

Reorderings(rs) ==
    {[n \in 1..Len(rs) |-> rs[p[n]]] :
        p \in {q \in [1..Len(rs) -> 1..Len(rs)] :
                  \A x \in 1..Len(rs) : \A y \in 1..Len(rs) : x # y => q[x] # q[y]}}

\* Array.prototype.sort: stable, and with a comparator that is not
\* consistent the order is implementation-defined.
SortOutcomes(rs) == IF Consistent(rs) THEN {StableSort(rs)} ELSE Reorderings(rs)

\* Array.prototype.slice(0, k) for k >= 0
Slice(s, k) == SubSeq(s, 1, IF k < Len(s) THEN k ELSE Len(s))

\* The results array search builds before it sorts.
Scored(store, queryEmbedding) ==
    LET entries == SelectSeq(store.embeddings, LAMBDA e : MapHas(store.documents, e.id))
    IN  [n \in 1..Len(entries) |->
            [chunk |-> MapGet(store.documents, entries[n].id),
             score |-> cosineSimilarity(queryEmbedding, entries[n].value)]]

\* search(queryEmbedding, topK): what it can return.
search(store, queryEmbedding, topK) ==
    {Slice(sorted, topK) : sorted \in SortOutcomes(Scored(store, queryEmbedding))}

\* An optional number of the options object is the empty set when it is
\* omitted and {x} when it is x; Given(o) is then x.
Omitted == {}
Given(o) == CHOOSE x \in o : TRUE

\* options.topK || this.topK
EffectiveTopK(options) ==
    IF options.topK = Omitted \/ options.topK = {0} THEN DefaultTopK
    ELSE Given(options.topK)

\* options.minScore || 0.3, in tenths
EffectiveMinScore(options) ==
    IF options.minScore = Omitted \/ options.minScore = {0} THEN DefaultMinScore
    ELSE Given(options.minScore)

\* The filter callback of retrieve.
PassesFilter(r, filter) ==
    /\ ~(filter.clauseType # Nil /\ r.chunk.clauseType # filter.clauseType)
    /\ ~(filter.source # Nil /\ r.chunk.source # filter.source)

\* Mutant: the results are not cut to topK.
retrieve_Uncut(searched, options) ==
    LET filtered == IF options.filter.given
                    THEN SelectSeq(searched, LAMBDA r : PassesFilter(r, options.filter))
                    ELSE searched
        results == SelectSeq(filtered,
                       LAMBDA r : AtLeastTenths(r.score, EffectiveMinScore(options)))
    IN  [results |-> results,
         metrics |-> [chunksRetrieved |-> Len(results),
                      estimatedAccuracy |-> EstimatedAccuracy]]

\* retrieve, after the search returned searched.
retrieve(searched, options) ==
    LET filtered == IF options.filter.given
                    THEN SelectSeq(searched, LAMBDA r : PassesFilter(r, options.filter))
                    ELSE searched
        results == Slice(SelectSeq(filtered,
                       LAMBDA r : AtLeastTenths(r.score, EffectiveMinScore(options))),
                       EffectiveTopK(options))
    IN  [results |-> results,
         metrics |-> [chunksRetrieved |-> Len(results),
                      estimatedAccuracy |-> EstimatedAccuracy]]

Filters == {[given |-> FALSE, clauseType |-> Nil, source |-> Nil],
            [given |-> TRUE, clauseType |-> "liability", source |-> Nil],
            [given |-> TRUE, clauseType |-> Nil, source |-> "a"]}
MinScores == {Omitted, {0}, {9}}
TopKs == {Omitted} \cup {{k} : k \in 0..MaxK}
Options == [topK : TopKs, minScore : MinScores, filter : Filters]

store == [documents |-> documents, embeddings |-> embeddings]

-----------------------------------------------------------------------------
(* The grounded generator: generate and calculateConfidence.  A text is    *)
(* the sequence of its characters.  A citation is modelled by the fields   *)
(* that identify it (the chunk's id and source, and its score); its        *)
(* content is the first 200 characters of the chunk's content.             *)

DecimalDigits == <<"0", "1", "2", "3", "4", "5", "6", "7", "8", "9">>
IsDigit(c) == \E d \in 1..10 : DecimalDigits[d] = c
DigitValue(c) == (CHOOSE d \in 1..10 : DecimalDigits[d] = c) - 1

\* parseInt of a string of decimal digits.
RECURSIVE parseInt(_)
parseInt(ds) ==
    IF ds = <<>> THEN 0
    ELSE 10 * parseInt(SubSeq(ds, 1, Len(ds) - 1)) + DigitValue(ds[Len(ds)])

\* The index of the last character of the longest run of digits of s that
\* starts at p; p - 1 when s has no digit at p.
RECURSIVE DigitRunEnd(_, _)
DigitRunEnd(s, p) ==
    IF p <= Len(s) /\ IsDigit(s[p]) THEN DigitRunEnd(s, p + 1) ELSE p - 1

\* /\[(\d+)\]/ matched at index p of s: the index of the closing bracket of
\* the match, 0 when there is no match at p.
MatchEnd(s, p) ==
    IF s[p] # "["
    THEN 0
    ELSE LET q == DigitRunEnd(s, p + 1)
         IN  IF q > p /\ q < Len(s) /\ s[q + 1] = "]" THEN q + 1 ELSE 0

\* Mutant: add() does not look for the value among those the set holds.
SetAdd_KeepsDuplicates(set, x) == Append(set, x)

\* Set.prototype.add; a Set iterates in insertion order.
SetAdd(set, x) ==
    IF \E n \in 1..Len(set) : set[n] = x THEN set ELSE Append(set, x)

\* The while loop over citationPattern.exec(answer), from lastIndex on.
RECURSIVE citedIndices(_, _, _)
citedIndices(answer, lastIndex, set) ==
    IF lastIndex > Len(answer)
    THEN set
    ELSE LET e == MatchEnd(answer, lastIndex)
         IN  IF e = 0
             THEN citedIndices(answer, lastIndex + 1, set)
             ELSE citedIndices(answer, e + 1,
                     SetAdd(set, parseInt(SubSeq(answer, lastIndex + 1, e - 1)) - 1))

\* The citation built from a context entry.
Citation(r) ==
    [chunkId |-> r.chunk.id, source |-> r.chunk.source, relevanceScore |-> r.score]

Citations(rs) == [n \in 1..Len(rs) |-> Citation(rs[n])]

\* The largest r with r * r <= x, for 0 <= x <= 10000.
Isqrt(x) == CHOOSE r \in 0..100 : r * r <= x /\ x < (r + 1) * (r + 1)

\* A score that is a number, in hundredths (exact for the scores whose
\* hundredths are whole, cut off towards zero for the others).
Hundredths(s) ==
    LET h == Isqrt((s.num * s.num * 10000) \div s.den2)
    IN  IF s.num < 0 THEN 0 - h ELSE h

RECURSIVE SumOfScores(_)
SumOfScores(context) ==
    IF context = <<>> THEN 0
    ELSE Hundredths(Head(context).score) + SumOfScores(Tail(context))

Min(a, b) == IF a < b THEN a ELSE b

\* calculateConfidence, in hundredths:
\* Math.round((avgScore * 0.6 + citationRatio * 0.4) * 100) / 100, where
\* Math.round(x) is the floor of x + 1/2.
calculateConfidence(context, citationCount) ==
    IF Len(context) = 0
    THEN 0
    ELSE LET n == Len(context)
             \* (avgScore * 0.6 + citationRatio * 0.4) * 100 = x / (10 * n)
             x == 6 * SumOfScores(context) + 400 * Min(citationCount, n)
         IN  (2 * x + 10 * n) \div (20 * n)

\* The answer of the fallback response.
FallbackAnswer(context) ==
    <<"Based on the provided documents, I found ", ToString(Len(context)),
      " relevant sections. However, I encountered an issue generating a detailed response. Please try again or review the source documents directly.">>

\* What the generation provider does with a call: it throws, or it returns
\* a completion whose message content is a text ("" for a null content).
GenerationFails == [ok |-> FALSE, content |-> <<>>]
GenerationReturns(content) == [ok |-> TRUE, content |-> content]

\* Mutant: the catch block of generate rethrows.
generate_Rethrows(context, outcome) ==
    [threw |-> ~outcome.ok,
     response |-> [answer |-> outcome.content, citations |-> <<>>,
                   confidence |-> 0, groundedOnSources |-> FALSE]]

\* generate(query, context): how the call ends and the response it returns.
generate(context, outcome) ==
    IF outcome.ok
    THEN LET answer == outcome.content
             cited == citedIndices(answer, 1, <<>>)
             inRange == SelectSeq(cited, LAMBDA k : k >= 0 /\ k < Len(context))
             citations == [n \in 1..Len(inRange) |-> Citation(context[inRange[n] + 1])]
         IN  [threw |-> FALSE,
              response |-> [answer |-> answer,
                            citations |-> citations,
                            confidence |-> calculateConfidence(context, Len(citations)),
                            groundedOnSources |-> Len(citations) > 0]]
    ELSE [threw |-> FALSE,
          response |-> [answer |-> FallbackAnswer(context),
                        citations |-> Citations(Slice(context, FallbackCitations)),
                        confidence |-> FallbackConfidence,
                        groundedOnSources |-> TRUE]]

\* The texts the generation provider answers with: up to MaxPieces pieces,
\* each a citation marker, in or out of range, or a single character.
AnswerPieces ==
    {<<"[", "1", "]">>, <<"[", "2", "]">>, <<"[", "3", "]">>, <<"[", "0", "]">>,
     <<"[">>, <<"1">>}

RECURSIVE Join(_)
Join(pieces) == IF pieces = <<>> THEN <<>> ELSE Head(pieces) \o Join(Tail(pieces))

Answers == {Join(ps) : ps \in UNION {[1..n -> AnswerPieces] : n \in 0..MaxPieces}}

GenerationOutcomes == {GenerationFails} \cup {GenerationReturns(a) : a \in Answers}

\* The context lists handed to generate: the n-th entry is the n-th chunk
\* of ContextChunks with a score of -1 or 1.
ContextChunks == <<Chunk("a-0", <<1, 1, 0>>), Chunk("a-1", <<0, 1, 1>>),
                   Chunk("b-0", <<1, 1, 0>>), Chunk("a-0", <<0, 1, 1>>)>>
ContextScores == {Number(-1, 1), Number(1, 1)}
Contexts ==
    {[n \in 1..Len(scores) |-> [chunk |-> ContextChunks[((n - 1) % 4) + 1],
                                score |-> scores[n]]] :
        scores \in UNION {[1..n -> ContextScores] : n \in 0..MaxContext}}

-----------------------------------------------------------------------------
(* Ingestion: segmentClauses, createChunks, batchEmbed and ingestDocument. *)
(* A text is the sequence of its characters.                               *)

\* String.prototype.toLowerCase, of the capital letters
LowerCase ==
    "A" :> "a" @@
    "B" :> "b" @@
    "C" :> "c" @@
    "D" :> "d" @@
    "E" :> "e" @@
    "F" :> "f" @@
    "G" :> "g" @@
    "H" :> "h" @@
    "I" :> "i" @@
    "J" :> "j" @@
    "K" :> "k" @@
    "L" :> "l" @@
    "M" :> "m" @@
    "N" :> "n" @@
    "O" :> "o" @@
    "P" :> "p" @@
    "Q" :> "q" @@
    "R" :> "r" @@
    "S" :> "s" @@
    "T" :> "t" @@
    "U" :> "u" @@
    "V" :> "v" @@
    "W" :> "w" @@
    "X" :> "x" @@
    "Y" :> "y" @@
    "Z" :> "z"

\* [A-Z]
IsUpper(c) == c \in DOMAIN LowerCase
\* [a-z]
IsLower(c) == c \in {LowerCase[u] : u \in DOMAIN LowerCase}
\* \s, for the white space the texts of the model have
IsSpace(c) == c \in {" ", "\n"}

\* String.prototype.toLowerCase, of a character
toLowerCase(c) == IF IsUpper(c) THEN LowerCase[c] ELSE c

\* The text s has the word w from index p on.
HasAt(s, p, w) ==
    /\ p >= 1 /\ p + Len(w) - 1 <= Len(s)
    /\ \A k \in 1..Len(w) : s[p + k - 1] = w[k]

\* The text s, in lower case, has the word w from index p on.
LowerHasAt(s, p, w) ==
    /\ p >= 1 /\ p + Len(w) - 1 <= Len(s)
    /\ \A k \in 1..Len(w) : toLowerCase(s[p + k - 1]) = w[k]

\* The least and the greatest number of a non-empty set of numbers.
Least(S) == CHOOSE x \in S : \A y \in S : x <= y
Greatest(S) == CHOOSE x \in S : \A y \in S : x >= y

\* The index of the first character of s at or after p that is not white
\* space; Len(s) + 1 when there is none.
RECURSIVE SkipSpaces(_, _)
SkipSpaces(s, p) ==
    IF p <= Len(s) /\ IsSpace(s[p]) THEN SkipSpaces(s, p + 1) ELSE p

\* String.prototype.trim: s from its first to its last character that is
\* not white space.
Trim(s) ==
    With({k \in 1..Len(s) : ~IsSpace(s[k])},
         LAMBDA black : IF black = {} THEN <<>>
                        ELSE SubSeq(s, Least(black), Greatest(black)))

\* (?:Section|Article|Clause)
ClauseWords == {<<"S", "e", "c", "t", "i", "o", "n">>, <<"A", "r", "t", "i", "c", "l", "e">>, <<"C", "l", "a", "u", "s", "e">>}

\* The index after the clause word s has at p, 0 when it has none; the
\* letters are compared as they are, or without regard to case (the i flag).
AfterClauseWord(s, p, ignoreCase) ==
    LET ws == {w \in ClauseWords :
                  IF ignoreCase
                  THEN LowerHasAt(s, p, [k \in 1..Len(w) |-> toLowerCase(w[k])])
                  ELSE HasAt(s, p, w)}
    IN  IF ws = {} THEN 0 ELSE p + Len(CHOOSE w \in ws : TRUE)

\* /(?=\n\s*(?:Section|Article|Clause)\s+\d+)/gi matches at index p of s
SectionAhead(s, p) ==
    /\ p <= Len(s) /\ s[p] = "\n"
    /\ LET r == AfterClauseWord(s, SkipSpaces(s, p + 1), TRUE)
       IN  /\ r # 0
           /\ r <= Len(s) /\ IsSpace(s[r])
           /\ SkipSpaces(s, r) <= Len(s) /\ IsDigit(s[SkipSpaces(s, r)])

\* /(?=\n\s*\d+\.\s+[A-Z])/g matches at index p of s
NumberedAhead(s, p) ==
    /\ p <= Len(s) /\ s[p] = "\n"
    /\ LET q == SkipSpaces(s, p + 1)
           r == DigitRunEnd(s, q)
       IN  /\ r >= q
           /\ r + 2 <= Len(s) /\ s[r + 1] = "." /\ IsSpace(s[r + 2])
           /\ SkipSpaces(s, r + 2) <= Len(s) /\ IsUpper(s[SkipSpaces(s, r + 2)])

\* The index of the last line feed of the white space that follows index p.
RECURSIVE LastLineFeed(_, _, _)
LastLineFeed(s, p, found) ==
    IF p <= Len(s) /\ IsSpace(s[p])
    THEN LastLineFeed(s, p + 1, IF s[p] = "\n" THEN p ELSE found)
    ELSE found

\* The three patterns of segmentClauses, by number: the index after the
\* match of the pattern at index q of s (q itself for the two lookaheads,
\* which match the empty string), 0 when the pattern does not match at q.
\* /\n\s*\n+/g matches a line feed, white space and the last line feed of
\* that white space.
MatchAt(pattern, s, q) ==
    CASE pattern = 1 -> IF SectionAhead(s, q) THEN q ELSE 0
      [] pattern = 2 -> IF NumberedAhead(s, q) THEN q ELSE 0
      [] pattern = 3 -> IF s[q] = "\n" /\ LastLineFeed(s, q + 1, 0) # 0
                        THEN LastLineFeed(s, q + 1, 0) + 1
                        ELSE 0

\* String.prototype.split(pattern): the pieces of s from index p on, the
\* search for the next match being at q.  A match at r ends the piece
\* unless it is empty and at the start of the piece.
RECURSIVE SplitFrom(_, _, _, _)
SplitFrom(pattern, s, p, q) ==
    With({r \in q..Len(s) : MatchAt(pattern, s, r) \notin {0, p}},
         LAMBDA matches :
             IF matches = {}
             THEN <<SubSeq(s, p, Len(s))>>
             ELSE With(Least(matches), LAMBDA r :
                  With(MatchAt(pattern, s, r), LAMBDA e :
                       <<SubSeq(s, p, r - 1)>> \o SplitFrom(pattern, s, e, e))))

Split(pattern, s) == SplitFrom(pattern, s, 1, 1)

\* segments.flatMap(seg => seg.split(pattern))
RECURSIVE FlatMapSplit(_, _)
FlatMapSplit(pattern, segments) ==
    IF segments = <<>> THEN <<>>
    ELSE Split(pattern, Head(segments)) \o FlatMapSplit(pattern, Tail(segments))

\* Mutant: the filter keeps the segments of 50 characters and fewer too.
segmentClauses_KeepsShort(text) ==
    With(FlatMapSplit(3, FlatMapSplit(2, FlatMapSplit(1, <<text>>))),
         LAMBDA split :
             SelectSeq([k \in 1..Len(split) |-> Trim(split[k])],
                       LAMBDA seg : Len(seg) > 0))

\* segmentClauses(text)
segmentClauses(text) ==
    With(FlatMapSplit(3, FlatMapSplit(2, FlatMapSplit(1, <<text>>))),
         LAMBDA split :
             SelectSeq([k \in 1..Len(split) |-> Trim(split[k])],
                       LAMBDA seg : Len(seg) > MinSegmentLength))

\* [A-Za-z\s&]
IsHeadingChar(c) == IsUpper(c) \/ IsLower(c) \/ IsSpace(c) \/ c = "&"

\* The index of the last character of the longest run of [A-Za-z\s&] of
\* s that starts at p.
HeadingRunEnd(s, p) ==
    Least({r \in p..(Len(s) + 1) : r > Len(s) \/ ~IsHeadingChar(s[r])}) - 1

\* \s*\d*\.?\s* from index p of s: the index after it (each part takes all
\* it can; taking less leaves a character that is no capital letter).
AfterNumbering(s, p) ==
    LET d == DigitRunEnd(s, SkipSpaces(s, p)) + 1
    IN  SkipSpaces(s, IF d <= Len(s) /\ s[d] = "." THEN d + 1 ELSE d)

\* ([A-Z][A-Za-z\s&]+) matches at index c of s
HeadingAt(s, c) == c < Len(s) /\ IsUpper(s[c]) /\ IsHeadingChar(s[c + 1])

UnnamedSection == <<"U", "n", "n", "a", "m", "e", "d", " ", "S", "e", "c", "t", "i", "o", "n">>

\* extractHeading(content), with
\* /^(?:Section|Article|Clause)?\s*\d*\.?\s*([A-Z][A-Za-z\s&]+)/: the
\* clause word is taken when the rest then matches, and left otherwise.
extractHeading(content) ==
    LET w == AfterClauseWord(content, 1, FALSE)
        withWord == IF w = 0 THEN 0 ELSE AfterNumbering(content, w)
        without == AfterNumbering(content, 1)
    IN  With(IF withWord # 0 /\ HeadingAt(content, withWord) THEN withWord
             ELSE IF HeadingAt(content, without) THEN without
             ELSE 0,
             LAMBDA c :
                 IF c = 0 THEN UnnamedSection
                 ELSE Trim(SubSeq(content, c, HeadingRunEnd(content, c + 1))))

clausePatterns == <<
    [type |-> "indemnification",
     words |-> <<
          <<"i", "n", "d", "e", "m", "n", "i", "f">>,
          <<"h", "o", "l", "d", " ", "h", "a", "r", "m", "l", "e", "s", "s">>,
          <<"d", "e", "f", "e", "n", "d", " ", "a", "n", "d", " ", "i", "n", "d", "e", "m", "n", "i", "f", "y">>>>],
    [type |-> "liability",
     words |-> <<
          <<"l", "i", "a", "b", "i", "l", "i", "t", "y">>,
          <<"l", "i", "m", "i", "t", "a", "t", "i", "o", "n">>,
          <<"c", "a", "p">>,
          <<"d", "a", "m", "a", "g", "e", "s">>>>],
    [type |-> "termination",
     words |-> <<
          <<"t", "e", "r", "m", "i", "n", "a", "t">>,
          <<"c", "a", "n", "c", "e", "l">>,
          <<"e", "x", "p", "i", "r">>,
          <<"r", "e", "n", "e", "w">>>>],
    [type |-> "confidentiality",
     words |-> <<
          <<"c", "o", "n", "f", "i", "d", "e", "n", "t", "i", "a", "l">>,
          <<"p", "r", "o", "p", "r", "i", "e", "t", "a", "r", "y">>,
          <<"n", "o", "n", "-", "d", "i", "s", "c", "l", "o", "s", "u", "r", "e">>,
          <<"n", "d", "a">>>>],
    [type |-> "intellectual_property",
     words |-> <<
          <<"i", "n", "t", "e", "l", "l", "e", "c", "t", "u", "a", "l", " ", "p", "r", "o", "p", "e", "r", "t", "y">>,
          <<"i", "p", " ", "r", "i", "g", "h", "t", "s">>,
          <<"c", "o", "p", "y", "r", "i", "g", "h", "t">>,
          <<"p", "a", "t", "e", "n", "t">>,
          <<"t", "r", "a", "d", "e", "m", "a", "r", "k">>>>],
    [type |-> "payment",
     words |-> <<
          <<"p", "a", "y", "m", "e", "n", "t">>,
          <<"i", "n", "v", "o", "i", "c", "e">>,
          <<"f", "e", "e">>,
          <<"c", "o", "m", "p", "e", "n", "s", "a", "t", "i", "o", "n">>,
          <<"p", "r", "i", "c", "i", "n", "g">>>>],
    [type |-> "data_protection",
     words |-> <<
          <<"d", "a", "t", "a", " ", "p", "r", "o", "t", "e", "c", "t", "i", "o", "n">>,
          <<"g", "d", "p", "r">>,
          <<"c", "c", "p", "a">>,
          <<"p", "r", "i", "v", "a", "c", "y">>,
          <<"p", "e", "r", "s", "o", "n", "a", "l", " ", "d", "a", "t", "a">>>>],
    [type |-> "governing_law",
     words |-> <<
          <<"g", "o", "v", "e", "r", "n", "i", "n", "g", " ", "l", "a", "w">>,
          <<"j", "u", "r", "i", "s", "d", "i", "c", "t", "i", "o", "n">>,
          <<"d", "i", "s", "p", "u", "t", "e">>,
          <<"a", "r", "b", "i", "t", "r", "a", "t", "i", "o", "n">>>>],
    [type |-> "force_majeure",
     words |-> <<
          <<"f", "o", "r", "c", "e", " ", "m", "a", "j", "e", "u", "r", "e">>,
          <<"a", "c", "t", " ", "o", "f", " ", "g", "o", "d">>,
          <<"u", "n", "f", "o", "r", "e", "s", "e", "e", "a", "b", "l", "e">>>>],
    [type |-> "warranty",
     words |-> <<
          <<"w", "a", "r", "r", "a", "n", "t", "y">>,
          <<"w", "a", "r", "r", "a", "n", "t">>,
          <<"g", "u", "a", "r", "a", "n", "t", "e", "e">>,
          <<"r", "e", "p", "r", "e", "s", "e", "n", "t", "a", "t", "i", "o", "n">>>>]>>

\* The words of clausePatterns, each with the place of its pattern.
ClauseWordsOf(k) ==
    {[at |-> k, word |-> clausePatterns[k].words[n]] :
        n \in 1..Len(clausePatterns[k].words)}
AllClauseWords == UNION {ClauseWordsOf(k) : k \in 1..Len(clausePatterns)}

\* The words that start with the letter c.
WordsFrom ==
    [c \in {w.word[1] : w \in AllClauseWords} |->
        {w \in AllClauseWords : w.word[1] = c}]

\* classifyClauseType(content): the type of the first pattern one of whose
\* words lowerContent has.
classifyClauseType(content) ==
    LET has(w) == \E p \in 1..(Len(content) - Len(w.word) + 1) :
                     LowerHasAt(content, p, w.word)
        starts == {toLowerCase(content[p]) : p \in 1..Len(content)}
                     \cap DOMAIN WordsFrom
    IN  With({w.at : w \in {v \in UNION {WordsFrom[c] : c \in starts} : has(v)}},
             LAMBDA matching :
                 IF matching = {} THEN "general"
                 ELSE clausePatterns[Least(matching)].type)

\* The service the constructor makes of its options:
\* options.chunkSize || 1000 and options.chunkOverlap || 200.
Service(options) ==
    [chunkSize |-> IF options.chunkSize = Omitted \/ options.chunkSize = {0}
                   THEN DefaultChunkSize ELSE Given(options.chunkSize),
     chunkOverlap |-> IF options.chunkOverlap = Omitted \/ options.chunkOverlap = {0}
                      THEN DefaultChunkOverlap ELSE Given(options.chunkOverlap)]

\* The exported ragService = new LangChainRAGService()
ragService == Service([chunkSize |-> Omitted, chunkOverlap |-> Omitted])

\* The chunk createChunks pushes as the n-th.
DocumentChunk(source, n, content, charStart, charEnd) ==
    [id |-> source \o "-" \o ToString(n),
     content |-> content,
     source |-> source,
     charStart |-> charStart,
     charEnd |-> charEnd,
     heading |-> extractHeading(content),
     clauseType |-> classifyClauseType(content),
     embedding |-> NoEmbedding]

\* The while loop of createChunks never ends: start does not advance in a
\* segment longer than chunkSize.
Hangs(svc, segments) ==
    /\ svc.chunkSize - svc.chunkOverlap <= 0
    /\ \E k \in 1..Len(segments) : Len(segments[k]) > svc.chunkSize

\* The while loop of createChunks over one segment, from start on.
RECURSIVE SplitSegment(_, _, _, _, _, _)
SplitSegment(svc, source, segment, charOffset, start, chunks) ==
    IF start >= Len(segment)
    THEN chunks
    ELSE LET end == Min(start + svc.chunkSize, Len(segment))
             chunkContent == SubSeq(segment, start + 1, end)
         IN  SplitSegment(svc, source, segment, charOffset,
                          start + svc.chunkSize - svc.chunkOverlap,
                          Append(chunks, DocumentChunk(source, Len(chunks), chunkContent,
                                                       charOffset + start,
                                                       charOffset + end)))

\* Mutant: charOffset is not advanced after a segment.
RECURSIVE ChunksFrom_OffsetKept(_, _, _, _, _, _)
ChunksFrom_OffsetKept(svc, source, segments, k, charOffset, chunks) ==
    IF k > Len(segments)
    THEN chunks
    ELSE LET segment == segments[k]
             after ==
                 IF Len(segment) <= svc.chunkSize
                 THEN Append(chunks, DocumentChunk(source, Len(chunks), segment,
                                                   charOffset,
                                                   charOffset + Len(segment)))
                 ELSE SplitSegment(svc, source, segment, charOffset, 0, chunks)
         IN  ChunksFrom_OffsetKept(svc, source, segments, k + 1, charOffset, after)

\* The for loop of createChunks, from the k-th segment on.
RECURSIVE ChunksFrom(_, _, _, _, _, _)
ChunksFrom(svc, source, segments, k, charOffset, chunks) ==
    IF k > Len(segments)
    THEN chunks
    ELSE LET segment == segments[k]
             after ==
                 IF Len(segment) <= svc.chunkSize
                 THEN Append(chunks, DocumentChunk(source, Len(chunks), segment,
                                                   charOffset,
                                                   charOffset + Len(segment)))
                 ELSE SplitSegment(svc, source, segment, charOffset, 0, chunks)
         IN  ChunksFrom(svc, source, segments, k + 1, charOffset + Len(segment), after)

\* createChunks(segments, source), of a call that returns
createChunks(svc, segments, source) == ChunksFrom(svc, source, segments, 1, 0, <<>>)

\* generateMockEmbedding(text): the normalised vector of the sums of the
\* character codes of the text, one sum per dimension.  What the model keeps
\* of it is that it is a function of the text and no vector of the provider.
generateMockEmbedding(text) ==
    IF Len(text) % 2 = 0 THEN <<0, 1, 1>> ELSE <<0, 0, 1>>

\* The vectors of the embedding provider.
ProviderVectors == {<<1, 1, 0>>, <<1, 0, 0>>}

\* What the embedding provider does with a call for n texts: it throws, or
\* it returns a response whose data has n or, against its contract, n - 1
\* or n + 1 entries.
EmbeddingFails == [ok |-> FALSE, data |-> <<>>]
EmbeddingOutcomes(n) ==
    {EmbeddingFails} \cup
    {[ok |-> TRUE, data |-> [j \in 1..k |-> v]] :
        k \in {n - 1, n, n + 1} \cap Nat, v \in ProviderVectors}

WithEmbedding(chunk, embedding) == [chunk EXCEPT !.embedding = embedding]

\* The fallback of the catch block of batchEmbed for a batch.
MockEmbedded(batch) ==
    [j \in 1..Len(batch) |->
        WithEmbedding(batch[j], generateMockEmbedding(batch[j].content))]

\* chunks.slice(i, i + BATCH_SIZE), with from the value of i
BatchAt(chunks, from) ==
    SubSeq(chunks, from + 1, Min(from + BATCH_SIZE, Len(chunks)))

\* What one turn of the for loop of batchEmbed pushes to results when the
\* provider's call ends with outcome: the chunks with the vectors of the
\* response, up to the first chunk the response has no entry for (reading
\* that entry's embedding throws), and then, as after a call that throws,
\* the whole batch with mock vectors.
EmbedBatch(batch, outcome) ==
    IF ~outcome.ok
    THEN MockEmbedded(batch)
    ELSE LET got == Min(Len(batch), Len(outcome.data))
             pushed == [j \in 1..got |-> WithEmbedding(batch[j], outcome.data[j])]
         IN  IF got = Len(batch) THEN pushed ELSE pushed \o MockEmbedded(batch)

\* The texts handed to ingestDocument: up to MaxParts parts, each a run of
\* letters, a blank line, or the start of a section or of a numbered clause.
Letters(n) == [k \in 1..n |-> "a"]
TextParts ==
    {Letters(30), Letters(55), <<"\n", "\n">>,
     <<"\n", "S", "e", "c", "t", "i", "o", "n", " ", "1", " ">>,
     <<"\n", "2", ".", " ", "B">>}
Texts == {Join(ps) : ps \in UNION {[1..n -> TextParts] : n \in 0..MaxParts}}

\* The services the texts are ingested by: the exported one, and services
\* constructed with a chunkSize of 60 and a chunkOverlap of 20, of 50 and
\* of 0.
Services ==
    {ragService} \cup
    {Service([chunkSize |-> {60}, chunkOverlap |-> {o}]) : o \in {20, 50, 0}}

\* The calls on the shared service that run side by side: two ingestDocument
\* calls, of the sources "a" and "b", and a retrieve call.
IngestFlows == {"i1", "i2"}
RetrieveFlows == {"r1"}
Flows == IngestFlows \cup RetrieveFlows
SourceOf(f) == IF f = "i1" THEN "a" ELSE "b"

\* A call that has not been made yet.  Of a call under way, calls counts
\* the calls of the embedding provider and outcomes lists how they ended.
IdleFlow(f, text) ==
    [pc |-> "idle", source |-> SourceOf(f), text |-> text,
     clauses |-> <<>>, chunks |-> <<>>, i |-> 0, results |-> <<>>, calls |-> 0,
     outcomes |-> <<>>,
     chunksIndexed |-> 0,
     query |-> <<>>, searched |-> <<>>, retrieved |-> <<>>]

\* The texts of the calls that run side by side: one shorter than the
\* shortest segment, one of one passage and one of three.
IngestTexts ==
    {Letters(30), Letters(55),
     Letters(55) \o <<"\n", "\n">> \o Letters(55) \o Letters(30)}

\* A synchronous loop that never ends keeps every other call from running.
NoneHung == \A f \in Flows : flows[f].pc # "hung"

\* The chunks of a direct call of batchEmbed.
ManyChunks(n) ==
    [k \in 1..n |-> [id |-> "a-" \o ToString(k - 1),
                     content |-> Letters(1 + (k % 2)),
                     source |-> "a",
                     charStart |-> 0,
                     charEnd |-> 1 + (k % 2),
                     heading |-> UnnamedSection,
                     clauseType |-> "general",
                     embedding |-> NoEmbedding]]

\* retrieve(query) is called without options.
NoOptions == [topK |-> Omitted, minScore |-> Omitted,
              filter |-> [given |-> FALSE, clauseType |-> Nil, source |-> Nil]]

-----------------------------------------------------------------------------
(* The middleware of the API routes.  A path, a header and a token are the *)
(* sequences of their characters.                                          *)

PROTECTED_ROUTES ==
    {<<"/", "a", "p", "i", "/", "c", "a", "s", "e", "s">>,
     <<"/", "a", "p", "i", "/", "a", "i", "/", "s", "t", "r", "e", "a", "m">>,
     <<"/", "a", "p", "i", "/", "s", "e", "t", "t", "i", "n", "g", "s">>}

PUBLIC_ROUTES ==
    {<<"/", "a", "p", "i", "/", "h", "e", "a", "l", "t", "h">>,
     <<"/", "a", "p", "i", "/", "p", "r", "o", "v", "i", "d", "e", "r", "s">>,
     <<"/", "a", "p", "i", "/", "a", "u", "t", "h", "/", "l", "o", "g", "i", "n">>,
     <<"/", "a", "p", "i", "/", "a", "u", "t", "h", "/", "r", "e", "g", "i", "s", "t", "e", "r">>,
     <<"/", "a", "p", "i", "/", "a", "u", "t", "h", "/", "d", "e", "m", "o", "-", "t", "o", "k", "e", "n">>}

\* String.prototype.startsWith
startsWith(s, w) == HasAt(s, 1, w)

isProtectedRoute(pathname) == \E route \in PROTECTED_ROUTES : startsWith(pathname, route)

isPublicRoute(pathname) == \E route \in PUBLIC_ROUTES : startsWith(pathname, route)

\* request.headers.get('Authorization') of a request without the header
NoHeader == [given |-> FALSE, value |-> <<>>]
Header(value) == [given |-> TRUE, value |-> value]

Bearer == <<"B", "e", "a", "r", "e", "r", " ">>

\* token.split('.').length
Parts(token) == Cardinality({k \in 1..Len(token) : token[k] = "."}) + 1

\* checkAuthentication(request)
checkAuthentication(request) ==
    LET authHeader == request.authorization
        token == SubSeq(authHeader.value, BearerLength + 1, Len(authHeader.value))
    IN  IF ~authHeader.given \/ authHeader.value = <<>>
        THEN [success |-> FALSE, error |-> "No authorization header provided"]
        ELSE IF ~startsWith(authHeader.value, Bearer)
        THEN [success |-> FALSE,
              error |-> "Invalid authorization format. Use Bearer token."]
        ELSE IF token = <<>> \/ Len(token) < MinTokenLength
        THEN [success |-> FALSE, error |-> "Invalid token provided"]
        ELSE IF Parts(token) < 2
        THEN [success |-> FALSE, error |-> "Malformed token"]
        ELSE [success |-> TRUE, error |-> Nil]

\* What the middleware answers with: a response of its own, or
\* NextResponse.next(), which hands the request to the route handler.  Of
\* the headers the model keeps X-Auth-Status; warned is the error of the
\* console.warn and logged tells whether logRequest ran.
Response(next, status, authStatus, warned, logged) ==
    [next |-> next, status |-> status, authStatus |-> authStatus,
     warned |-> warned, logged |-> logged]

\* handleCORS(request)
handleCORS == Response(FALSE, NoContent, Nil, Nil, FALSE)

\* middleware(request)
middleware(request) ==
    IF request.method = "OPTIONS" THEN handleCORS
    ELSE IF isPublicRoute(request.pathname) THEN Response(TRUE, Ok, Nil, Nil, FALSE)
    ELSE IF isProtectedRoute(request.pathname)
            /\ ~checkAuthentication(request).success
    THEN Response(TRUE, Ok, "unverified-dev-mode",
                  checkAuthentication(request).error, FALSE)
    ELSE Response(TRUE, Ok, Nil, Nil, TRUE)

\* The requests that reach the middleware: to the protected routes and to
\* paths below and beside them, to public routes and to a route that is
\* neither; without the header, with an empty one, with one of another
\* scheme, and with Bearer tokens that are empty, short, without a dot, and
\* well-formed.
Methods == {"GET", "POST", "OPTIONS"}
Pathnames ==
    PROTECTED_ROUTES \cup
    {<<"/", "a", "p", "i", "/", "c", "a", "s", "e", "s", "/", "4", "2">>,
     <<"/", "a", "p", "i", "/", "c", "a", "s", "e", "s", "X">>,
     <<"/", "a", "p", "i", "/", "h", "e", "a", "l", "t", "h">>,
     <<"/", "a", "p", "i", "/", "a", "u", "t", "h", "/", "l", "o", "g", "i", "n">>,
     <<"/", "a", "p", "i", "/", "o", "t", "h", "e", "r">>}
Authorizations ==
    {NoHeader,
     Header(<<>>),
     Header(<<"B", "a", "s", "i", "c", " ", "d", "X", "N", "l", "c", "j", "p", "w", "Y", "X", "N", "z">>),
     Header(<<"b", "e", "a", "r", "e", "r", " ", "a", "b", "c", "d", "e", "f", "g", "h", ".", "i", "j", "k", "l">>),
     Header(Bearer),
     Header(Bearer \o <<"a", "b", "c", ".", "d", "e", "f">>),
     Header(Bearer \o <<"a", "b", "c", "d", "e", "f", "g", "h", "i", "j", "k", "l">>),
     Header(Bearer \o <<"a", "b", "c", "d", "e", "f", "g", "h", ".", "i", "j", "k", "l">>)}
Requests ==
    [method : Methods, pathname : Pathnames, authorization : Authorizations]

\* No request is at the middleware.
NoExchange == [at |-> "none"]

-----------------------------------------------------------------------------
(* Actions of the index and the retriever.                                 *)

IndexInit ==
    /\ documents = <<>>
    /\ embeddings = <<>>
    /\ upserts = 0
    /\ lastCall = [op |-> "none"]

\* vectorStore.upsert(chunks)
Upsert ==
    /\ lastCall.op = "none"
    /\ \E n \in 1..(MaxUpserted - upserts) : \E chunks \in [1..n -> Chunks] :
          LET after == upsert(store, chunks)
          IN  /\ documents' = after.documents
              /\ embeddings' = after.embeddings
              /\ upserts' = upserts + n
              /\ lastCall' = [op |-> "upsert", chunks |-> chunks,
                               returned |-> Len(chunks)]
    /\ UNCHANGED <<streamVars, ingestVars, edgeVars>>

\* vectorStore.search(queryEmbedding, topK)
Search ==
    /\ lastCall.op = "none"
    /\ \E q \in QueryVectors : \E k \in 0..MaxK : \E out \in search(store, q, k) :
          lastCall' = [op |-> "search", query |-> q, topK |-> k, returned |-> out]
    /\ UNCHANGED <<documents, embeddings, upserts, streamVars, ingestVars, edgeVars>>

\* ragService.retrieve(query, options), with q the embedding of the query:
\* the provider's, or generateMockEmbedding's when the provider fails.
Retrieve ==
    /\ lastCall.op = "none"
    /\ \E q \in QueryVectors : \E options \in Options :
       \E searched \in search(store, q, EffectiveTopK(options) * 2) :
          lastCall' = [op |-> "retrieve", query |-> q, options |-> options,
                       searched |-> searched,
                       returned |-> retrieve(searched, options)]
    /\ UNCHANGED <<documents, embeddings, upserts, streamVars, ingestVars, edgeVars>>

\* The caller takes the result of its call; retrieval results are built per
\* call and kept nowhere.
Return ==
    /\ lastCall.op # "none"
    /\ lastCall' = [op |-> "none"]
    /\ UNCHANGED <<documents, embeddings, upserts, streamVars, ingestVars, edgeVars>>

\* ragService.generate(query, context)
Generate ==
    /\ lastCall.op = "none"
    /\ \E context \in Contexts : \E outcome \in GenerationOutcomes :
          lastCall' = [op |-> "generate", context |-> context, outcome |-> outcome,
                       returned |-> generate(context, outcome)]
    /\ UNCHANGED <<documents, embeddings, upserts, streamVars, ingestVars, edgeVars>>

\* What the generation provider does within a query call.
QueryOutcomes ==
    {GenerationFails, GenerationReturns(<<>>), GenerationReturns(<<"[", "1", "]">>),
     GenerationReturns(<<"[", "2", "]", "[", "1", "]">>)}

\* query(query): retrieve, then generate on the results; what it returns.
query(searched, outcome) ==
    LET retrieved == retrieve(searched, NoOptions)
        generated == generate(retrieved.results, outcome)
    IN  [threw |-> generated.threw,
         response |-> generated.response,
         metrics |-> [chunksRetrieved |-> retrieved.metrics.chunksRetrieved,
                      chunksUsed |-> Len(generated.response.citations),
                      estimatedAccuracy |-> EstimatedAccuracy]]

\* ragService.query(query), with q the embedding of the query: the
\* provider's, or generateMockEmbedding's when the embedding provider fails.
Query ==
    /\ lastCall.op = "none"
    /\ \E q \in QueryVectors : \E embeddingFailed \in BOOLEAN :
       \E outcome \in QueryOutcomes :
       \E searched \in search(store, q, EffectiveTopK(NoOptions) * 2) :
          lastCall' = [op |-> "query", query |-> q,
                       embeddingFailed |-> embeddingFailed, outcome |-> outcome,
                       context |-> retrieve(searched, NoOptions).results,
                       returned |-> query(searched, outcome)]
    /\ UNCHANGED <<documents, embeddings, upserts, streamVars, ingestVars, edgeVars>>

-----------------------------------------------------------------------------
(* Actions of ingestDocument and of the retrieve calls beside it.  One     *)
(* action is the code that runs from one await to the next.                *)

\* No call on the service is under way.
IngestIdle ==
    /\ service = ragService
    /\ flows = [f \in Flows |-> IdleFlow(f, <<>>)]

\* ingestDocument(text, source) up to the first await of batchEmbed:
\* segmentClauses, createChunks and, if there is a chunk, the provider call
\* for the first batch.
IngestStart(f) ==
    /\ f \in IngestFlows /\ NoneHung
    /\ flows[f].pc = "idle"
    /\ \E clauses \in {segmentClauses(flows[f].text)} :
          IF Hangs(service, clauses)
          THEN flows' = [flows EXCEPT ![f].pc = "hung", ![f].clauses = clauses]
          ELSE \E chunks \in {createChunks(service, clauses, flows[f].source)} :
                  flows' = [flows EXCEPT
                      ![f].clauses = clauses,
                      ![f].chunks = chunks,
                      ![f].calls = IF chunks = <<>> THEN 0 ELSE 1,
                      ![f].pc = IF chunks = <<>> THEN "embedded" ELSE "embedding"]
    /\ UNCHANGED <<service, indexVars, streamVars, edgeVars>>

\* batchEmbed(chunks), called by itself, up to its first await.
BatchEmbedCall(f) ==
    /\ f \in IngestFlows /\ NoneHung
    /\ flows[f].pc = "idle"
    /\ \E n \in 0..MaxChunks :
          flows' = [flows EXCEPT
              ![f].chunks = ManyChunks(n),
              ![f].calls = IF n = 0 THEN 0 ELSE 1,
              ![f].pc = IF n = 0 THEN "embedded" ELSE "embedding"]
    /\ UNCHANGED <<service, indexVars, streamVars, edgeVars>>

\* The provider's call for the batch at i ends: the rest of that turn of
\* the loop of batchEmbed and, if chunks are left, the call for the next
\* batch.
EmbedReturn(f) ==
    /\ f \in IngestFlows /\ NoneHung
    /\ flows[f].pc = "embedding"
    /\ LET next == flows[f].i + BATCH_SIZE
           more == next < Len(flows[f].chunks)
       IN  \E batch \in {BatchAt(flows[f].chunks, flows[f].i)} :
           \E outcome \in EmbeddingOutcomes(Len(batch)) :
              flows' = [flows EXCEPT
                  ![f].results = @ \o EmbedBatch(batch, outcome),
                  ![f].outcomes = Append(@, outcome),
                  ![f].i = next,
                  ![f].calls = IF more THEN @ + 1 ELSE @,
                  ![f].pc = IF more THEN "embedding" ELSE "embedded"]
    /\ UNCHANGED <<service, indexVars, streamVars, edgeVars>>

\* batchEmbed has returned: ingestDocument calls vectorStore.upsert, whose
\* body has no await.
IngestUpsert(f) ==
    /\ f \in IngestFlows /\ NoneHung
    /\ flows[f].pc = "embedded"
    /\ \E after \in {upsert(store, flows[f].results)} :
          /\ documents' = after.documents
          /\ embeddings' = after.embeddings
    /\ upserts' = upserts + 1
    /\ flows' = [flows EXCEPT ![f].chunksIndexed = Len(flows[f].results),
                              ![f].pc = "upserted"]
    /\ UNCHANGED <<service, lastCall, streamVars, edgeVars>>

\* ingestDocument returns { chunksIndexed, processingTimeMs }.
IngestReturn(f) ==
    /\ f \in IngestFlows /\ NoneHung
    /\ flows[f].pc = "upserted"
    /\ flows' = [flows EXCEPT ![f].pc = "done"]
    /\ UNCHANGED <<service, indexVars, streamVars, edgeVars>>

\* retrieve(query) up to the await of the provider's embedding of the query.
RetrieveStart(f) ==
    /\ f \in RetrieveFlows /\ NoneHung
    /\ flows[f].pc = "idle"
    /\ flows' = [flows EXCEPT ![f].pc = "embedding"]
    /\ UNCHANGED <<service, indexVars, streamVars, edgeVars>>

\* The query is embedded, by the provider or by generateMockEmbedding:
\* retrieve calls vectorStore.search, whose body has no await.
RetrieveSearch(f) ==
    /\ f \in RetrieveFlows /\ NoneHung
    /\ flows[f].pc = "embedding"
    /\ \E q \in QueryVectors :
       \E searched \in search(store, q, EffectiveTopK(NoOptions) * 2) :
          flows' = [flows EXCEPT ![f].query = q,
                                 ![f].searched = searched,
                                 ![f].pc = "searched"]
    /\ UNCHANGED <<service, indexVars, streamVars, edgeVars>>

\* retrieve filters what search returned and returns.
RetrieveReturn(f) ==
    /\ f \in RetrieveFlows /\ NoneHung
    /\ flows[f].pc = "searched"
    /\ flows' = [flows EXCEPT
          ![f].retrieved = retrieve(flows[f].searched, NoOptions).results,
          ![f].pc = "done"]
    /\ UNCHANGED <<service, indexVars, streamVars, edgeVars>>

-----------------------------------------------------------------------------
(* Actions of the middleware and of the route handler behind it.           *)

NoRequest == exchange = NoExchange

\* A request arrives and the middleware answers it.
Middleware ==
    /\ exchange = NoExchange
    /\ \E request \in Requests :
          exchange' = [at |-> "middleware", request |-> request,
                       response |-> middleware(request)]
    /\ UNCHANGED <<streamVars, indexVars, ingestVars>>

\* The route handler runs on a request the middleware handed on.
RouteHandler ==
    /\ exchange.at = "middleware"
    /\ exchange.response.next
    /\ exchange' = [exchange EXCEPT !.at = "handler"]
    /\ UNCHANGED <<streamVars, indexVars, ingestVars>>

\* A request that has not started: the state of the streaming session while
\* the index is exercised.
StreamIdle ==
    /\ prompt = TRUE /\ caseId = FALSE /\ modeParam = "absent" /\ apiKey = FALSE
    /\ pc = "idle" /\ handler = Nil /\ i = 0 /\ fullResponse = <<>> /\ chunkCount = 0
    /\ provider = [tokens |-> 0, empties |-> 0]
    /\ ctl = NewController /\ emitted = <<>> /\ delivered = <<>> /\ ops = <<>>

\* The streaming session, with an index nothing is ingested into.
Init == StreamInit /\ IndexInit /\ IngestIdle /\ NoRequest

Next == StreamNext /\ UNCHANGED <<indexVars, ingestVars, edgeVars>>

Spec == Init /\ [][Next]_vars

\* The index and the retriever.
IndexNext ==
    \/ Upsert
    \/ Search
    \/ Retrieve
    \/ Query
    \/ Return

IndexStart == StreamIdle /\ IndexInit /\ IngestIdle /\ NoRequest

IndexSpec == IndexStart /\ [][IndexNext]_vars

\* The grounded generator, called with a context of its caller's or, within
\* query, with what retrieve returns from an index that holds three passages.
GenStart ==
    /\ StreamIdle /\ IngestIdle /\ NoRequest
    /\ LET ingested == upsert([documents |-> <<>>, embeddings |-> <<>>],
                           <<Chunk("a-0", <<1, 1, 0>>), Chunk("a-1", <<0, 1, 1>>),
                             Chunk("b-0", <<1, 1, 0>>)>>)
       IN  /\ documents = ingested.documents
           /\ embeddings = ingested.embeddings
    /\ upserts = 1
    /\ lastCall = [op |-> "none"]

GenNext ==
    \/ Generate
    \/ Query
    \/ Return

GenSpec == GenStart /\ [][GenNext]_vars

\* Calls on the shared service side by side: two ingestions, of different
\* sources, and a retrieval, on a service with windows of 60 characters
\* that overlap by 20.
IngestInit ==
    /\ StreamIdle /\ IndexInit /\ NoRequest
    /\ service = Service([chunkSize |-> {60}, chunkOverlap |-> {20}])
    /\ \E texts \in [IngestFlows -> IngestTexts] :
          flows = [f \in Flows |->
                      IdleFlow(f, IF f \in IngestFlows THEN texts[f] ELSE <<>>)]

IngestNext ==
    \E f \in Flows :
        \/ IngestStart(f)
        \/ EmbedReturn(f)
        \/ IngestUpsert(f)
        \/ IngestReturn(f)
        \/ RetrieveStart(f)
        \/ RetrieveSearch(f)
        \/ RetrieveReturn(f)

IngestSpec == IngestInit /\ [][IngestNext]_vars

\* An index that holds a passage of another source.
OtherSource ==
    upsert([documents |-> <<>>, embeddings |-> <<>>], <<Chunk("b-0", <<1, 1, 0>>)>>)

\* One ingestion of one document, of any text, by any service, into an index
\* that holds a passage of another source.
DocInit ==
    /\ StreamIdle /\ NoRequest
    /\ documents = OtherSource.documents
    /\ embeddings = OtherSource.embeddings
    /\ upserts = 1
    /\ lastCall = [op |-> "none"]
    /\ service \in Services
    /\ \E text \in Texts :
          flows = [f \in Flows |-> IdleFlow(f, IF f = "i1" THEN text ELSE <<>>)]

DocNext ==
    \/ IngestStart("i1")
    \/ EmbedReturn("i1")
    \/ IngestUpsert("i1")
    \/ IngestReturn("i1")

DocSpec == DocInit /\ [][DocNext]_vars

\* One call of batchEmbed, of any number of chunks.
EmbedNext ==
    \/ BatchEmbedCall("i1")
    \/ EmbedReturn("i1")

EmbedSpec == IndexStart /\ [][EmbedNext]_vars

\* The middleware in front of the routes.
EdgeStart == StreamIdle /\ IndexInit /\ IngestIdle /\ NoRequest

EdgeNext ==
    \/ Middleware
    \/ RouteHandler

EdgeSpec == EdgeStart /\ [][EdgeNext]_vars

-----------------------------------------------------------------------------
(* Vocabulary of the claims about the streaming session.                   *)

Last(s) == s[Len(s)]

IsChunk(e) == e.type = "chunk"
IsProgress(e) == e.type = "progress"
IsError(e) == e.type = "error"
IsComplete(e) == e.type = "complete"
IsAnalysis(e) == e.type = "analysis"
IsConnected(e) == e.type = "connected"

Types(s) == [n \in 1..Len(s) |-> s[n].type]

\* The start callback has run to its end (its promise is settled).
finished == pc \in {"rejected", "done"}

valid == prompt \/ caseId

\* The messages of the provider failures of this session, in order.
IsThrow(o) == o \in {"throws: " \o e : e \in ProviderErrors}
providerFailed == \E n \in 1..Len(ops) : IsThrow(ops[n])

IsCloseCall(o) == o \in {"close", "close_throws"}
IsEnqueueCall(o) == o \in {"enqueue", "enqueue_throws"}

\* The concatenation of the first n non-empty deltas of the provider.
RECURSIVE Concat(_)
Concat(n) == IF n = 0 THEN <<>> ELSE Concat(n - 1) \o Token(n)

-----------------------------------------------------------------------------
(* C1: whatever the input, the last event emitted before the stream is     *)
(* closed is a `complete` event.                                           *)
(* As stated (C1_LastEventIsComplete) this fails on a validation failure   *)
(* and on a provider failure.  Amended (C1_LastEventIsTerminal): in a      *)
(* session the consumer did not cancel, the last event emitted before the  *)
(* stream is closed is `complete` when the request is valid and the       *)
(* provider did not fail, and `error` otherwise.                           *)

C2_TerminalThenClosed ==
    (pc = "done" /\ ~cancelled) =>
        /\ \E n \in 1..Len(emitted) : emitted[n].type \in {"complete", "error"}
        /\ ctl.closeRequested
        /\ ctl.state \in {"readable", "closed"}
        /\ delivered \o ctl.queue = emitted

(* C3: `connected` is emitted exactly once, it is the first event, it      *)
(* precedes the validation check and any provider call, and its payload    *)
(* carries the requested mode (the default "analyze" when none is given).  *)

C3_ConnectedFirstOnce ==
    pc # "idle" =>
        /\ Len(emitted) >= 1 /\ emitted[1].type = "connected"
        /\ Len(SelectSeq(emitted, IsConnected)) = 1
        /\ emitted[1].mode = (IF modeParam = "absent" THEN "analyze" ELSE modeParam)
        /\ ops[1] = "enqueue"
        /\ \A n \in 1..Len(ops) : ops[n] \in {"validate", "create"} => n > 1

C3_Witness ==
    /\ pc = "await_delta" /\ modeParam = "chat"
    /\ emitted[1].type = "connected" /\ emitted[1].mode = "chat"
    /\ \E n \in 1..Len(ops) : ops[n] = "create"

(* C4: when neither a prompt nor a caseId is supplied the event sequence   *)
(* is exactly connected, error, complete.                                  *)
(* As stated (C4_ConnectedErrorComplete) this fails: no `complete` event   *)
(* follows the error.  Amended (C4_ConnectedErrorOnly): the event sequence *)
(* is exactly connected, error; the error is the validation message,      *)
(* emitted once, and no provider call is made.                             *)

C5_OneErrorThenClose ==
    /\ (finished /\ providerFailed /\ ~cancelled) =>
          /\ Len(SelectSeq(emitted, IsError)) = 1
          /\ Last(emitted).type = "error"
          /\ \E e \in ProviderErrors :
                /\ \E n \in 1..Len(ops) : ops[n] = "throws: " \o e
                /\ Last(emitted).message = ErrorPrefix(handler) \o e
          /\ Last(ops) = "close"
    /\ finished => Len(SelectSeq(ops, IsCloseCall)) >= 1
    /\ (finished /\ valid /\ ~providerFailed /\ ~cancelled) => Last(ops) = "close"

C5_Witness ==
    /\ pc = "done" /\ ~cancelled /\ handler = "summary"
    /\ provider.tokens >= 2
    /\ Last(emitted).type = "error"
    /\ Last(emitted).message = "Summary streaming failed: socket hang up"
    /\ Last(ops) = "close"

(* C6: once the consumer has disconnected (the cancel callback has run),   *)
(* the producer calls neither enqueue nor close on the controller.         *)

C6_NoCallAfterCancel ==
    \A n \in 1..Len(ops) : \A m \in 1..Len(ops) :
        (ops[n] = "cancel" /\ m > n) => ~IsEnqueueCall(ops[m]) /\ ~IsCloseCall(ops[m])

(* C7: with no provider key and a valid request, in every mode, the        *)
(* session emits one `connected`, then one `chunk` per line of the canned  *)
(* text in text order, `progress` events whose percentages never decrease, *)
(* and one `complete` with mode "mock" as its last event; no provider call *)
(* is made.                                                                *)

C7_MockSession ==
    (finished /\ ~apiKey /\ valid /\ ~cancelled) =>
        LET chunks == SelectSeq(emitted, IsChunk)
            progress == SelectSeq(emitted, IsProgress)
        IN  /\ emitted[1].type = "connected"
            /\ Len(SelectSeq(emitted, IsConnected)) = 1
            /\ Len(chunks) = Len(mockChunks)
            /\ \A n \in 1..Len(chunks) :
                  chunks[n].content = mockChunks[n] /\ chunks[n].chunkIndex = n - 1
            /\ \A n \in 1..Len(progress) - 1 :
                  progress[n].progress <= progress[n + 1].progress
            /\ Len(SelectSeq(emitted, IsComplete)) = 1
            /\ Last(emitted).type = "complete" /\ Last(emitted).mode = "mock"
            /\ \A n \in 1..Len(emitted) : emitted[n].type \notin {"error", "analysis"}
            /\ \A n \in 1..Len(ops) : ops[n] # "create"

C7_Witness ==
    /\ pc = "done" /\ ~apiKey /\ valid /\ ~cancelled /\ modeParam = "summarize"
    /\ Len(SelectSeq(emitted, IsChunk)) = NumMockChunks
    /\ Len(SelectSeq(emitted, IsProgress)) = 7
    /\ Last(emitted).mode = "mock"
    /\ ctl.state = "closed"

(* C8: with the provider available and the generation succeeding, the      *)
(* session emits progress 10 before the provider call, progress 30 once    *)
(* the generation stream is open, a `chunk` per non-empty delta, a         *)
(* `progress` of at most 90 after every 10th delta, one `analysis` with    *)
(* the concatenation of the deltas and their count, then `complete` with   *)
(* the number of chunks and the length of the text.                        *)
(* As stated for all three modes (C8_AllModes) this fails in chat and      *)
(* summarize mode.  Amended (C8_PerHandler): it holds of analyze mode, and *)
(* of any mode other than chat and summarize; in chat mode the session     *)
(* emits progress 20, a chunk per non-empty delta and a `complete` with    *)
(* the length of the text only; in summarize mode it emits progress 15, a  *)
(* chunk per non-empty delta and a `complete` without counts; neither      *)
(* emits an `analysis` event or any further progress.                      *)

succeeded == finished /\ apiKey /\ valid /\ ~providerFailed /\ ~cancelled

\* The events after `connected` and the first progress, without the closing
\* events, are the chunks, the k-th carrying the k-th non-empty delta.
ChunksAre(body, indexed) ==
    LET chunks == SelectSeq(body, IsChunk)
    IN  /\ Len(chunks) = provider.tokens
        /\ \A n \in 1..Len(chunks) :
              /\ chunks[n].content = Token(n)
              /\ chunks[n].chunkIndex = IF indexed THEN n ELSE Nil

AnalysisShape ==
    LET len == Len(emitted)
        body == SubSeq(emitted, 4, len - 2)
    IN  /\ len >= 5
        /\ emitted[2] = ProgressEvent(10)
        /\ SubSeq(ops, 1, 4) = <<"enqueue", "validate", "enqueue", "create">>
        /\ emitted[3] = ProgressEvent(30)
        /\ ChunksAre(body, TRUE)
        /\ \A n \in 1..Len(body) :
              /\ body[n].type \in {"chunk", "progress"}
              /\ body[n].type = "progress" =>
                    /\ n > 1 /\ body[n - 1].type = "chunk"
                    /\ body[n - 1].chunkIndex % 10 = 0
                    /\ body[n].progress <= 90
                    /\ body[n].progress >= 30
              /\ (body[n].type = "chunk" /\ body[n].chunkIndex % 10 = 0) =>
                    /\ n < Len(body) /\ body[n + 1].type = "progress"
        /\ Len(SelectSeq(emitted, IsAnalysis)) = 1
        /\ emitted[len - 1].type = "analysis"
        /\ emitted[len - 1].fullResponse = Concat(provider.tokens)
        /\ emitted[len - 1].chunkCount = provider.tokens
        /\ emitted[len].type = "complete"
        /\ emitted[len].totalChunks = Len(SelectSeq(emitted, IsChunk))
        /\ emitted[len].responseLength = Len(emitted[len - 1].fullResponse)

PlainShape(first, withLength) ==
    LET len == Len(emitted)
        body == SubSeq(emitted, 3, len - 1)
    IN  /\ len >= 3
        /\ emitted[2] = ProgressEvent(first)
        /\ SubSeq(ops, 1, 4) = <<"enqueue", "validate", "enqueue", "create">>
        /\ ChunksAre(body, FALSE)
        /\ \A n \in 1..Len(body) : body[n].type = "chunk"
        /\ emitted[len].type = "complete"
        /\ emitted[len].totalChunks = Nil
        /\ emitted[len].responseLength =
              IF withLength THEN Len(Concat(provider.tokens)) ELSE Nil

C8_AllModes == succeeded => AnalysisShape

C8_PerHandler ==
    succeeded =>
        CASE mode = "chat" -> PlainShape(20, TRUE)
          [] mode = "summarize" -> PlainShape(15, FALSE)
          [] OTHER -> AnalysisShape

C8_Witness ==
    /\ succeeded /\ pc = "done" /\ mode = "analyze"
    /\ provider.tokens >= 40 /\ provider.empties >= 1
    /\ emitted[Len(emitted) - 2] = ProgressEvent(90)
    /\ Last(emitted).totalChunks = 40
    /\ Last(emitted).responseLength = 60

-----------------------------------------------------------------------------
(* Vocabulary of the claims about the index and the retriever.             *)

\* The place of a passage in the order the entries of the index (a passage
\* paired with its vector) were first inserted.
InsertedAt(id) == CHOOSE n \in 1..Len(embeddings) : embeddings[n].id = id

SameScore(s, t) == ~s.nan /\ ~t.nan /\ ~Less(s, t) /\ ~Less(t, s)

\* What the caller asked for: the option, or the documented default.
RequestedTopK(options) ==
    IF options.topK = Omitted THEN DefaultTopK ELSE Given(options.topK)
RequestedMinScore(options) ==
    IF options.minScore = Omitted THEN DefaultMinScore ELSE Given(options.minScore)

(* C9: search returns at most k results, no result has a greater score     *)
(* than one before it, and results with equal scores are in the order      *)
(* their passages were first inserted.                                     *)

C9_SearchSorted ==
    lastCall.op = "search" =>
        LET out == lastCall.returned
        IN  /\ Len(out) <= lastCall.topK
            /\ \A n \in 1..Len(out) : \A m \in 1..Len(out) :
                  n < m =>
                    /\ ~(~out[n].score.nan /\ ~out[m].score.nan
                            /\ Less(out[n].score, out[m].score))
                    /\ SameScore(out[n].score, out[m].score) =>
                          InsertedAt(out[n].chunk.id) < InsertedAt(out[m].chunk.id)

(* C10: retrieve returns at most topK results, each with a score of at     *)
(* least minScore, and when no indexed passage reaches minScore it returns *)
(* an empty list with its metrics.                                         *)

C10_RetrieveBounded ==
    lastCall.op = "retrieve" =>
        LET out == lastCall.returned.results
            options == lastCall.options
        IN  /\ Len(out) <= RequestedTopK(options)
            /\ \A n \in 1..Len(out) :
                  AtLeastTenths(out[n].score, RequestedMinScore(options))
            /\ (\A n \in 1..Len(embeddings) :
                    ~AtLeastTenths(cosineSimilarity(lastCall.query, embeddings[n].value),
                                   RequestedMinScore(options)))
                  => /\ out = <<>>
                     /\ lastCall.returned.metrics.chunksRetrieved = 0

\* The same two statements where the comparator of the sort is consistent
\* (no zero-magnitude vector among those compared) and where the topK
\* option is not 0.
C9_SearchSortedWithoutNaN ==
    (lastCall.op = "search" /\ Consistent(Scored(store, lastCall.query)))
        => C9_SearchSorted

C10_RetrieveBoundedForPositiveTopK ==
    (lastCall.op = "retrieve" /\ lastCall.options.topK # {0}) => C10_RetrieveBounded

-----------------------------------------------------------------------------
(* Vocabulary of the claims about the grounded generator.                  *)

\* The answer s has, from index p to index q, a bracketed integer.
MarkerAt(s, p, q) ==
    /\ q > p + 1
    /\ s[p] = "[" /\ s[q] = "]"
    /\ \A k \in (p + 1)..(q - 1) : IsDigit(s[k])

\* Where the answer s has a marker of value v.
Occurrences(s, v) ==
    {p \in 1..Len(s) :
        /\ s[p] = "["
        /\ \E q \in (p + 2)..Len(s) :
              MarkerAt(s, p, q) /\ parseInt(SubSeq(s, p + 1, q - 1)) = v}

\* Where the answer s has its first marker of value v, 0 when it has none.
FirstOccurrence(s, v) ==
    LET ps == Occurrences(s, v)
    IN  IF ps = {} THEN 0 ELSE CHOOSE p \in ps : \A o \in ps : p <= o

generated == lastCall.returned.response

(* C11: when the generation call succeeds, the citations are those of the  *)
(* distinct context positions i for which a marker [i+1] occurs in the     *)
(* answer, each once, in the order of the first occurrences of their       *)
(* markers; a marker 0 or beyond the context yields no citation.           *)

C11_CitationsAreCitedPositions ==
    (lastCall.op = "generate" /\ lastCall.outcome.ok) =>
        LET answer == lastCall.outcome.content
            context == lastCall.context
            \* where the marker of each context position first occurs
            first == [k \in 0..(Len(context) - 1) |-> FirstOccurrence(answer, k + 1)]
            cited == {k \in DOMAIN first : first[k] # 0}
            \* the cited position with n - 1 cited positions marked before it
            Nth(n) == CHOOSE k \in cited :
                         Cardinality({j \in cited : first[j] < first[k]}) = n - 1
        IN  /\ Len(generated.citations) = Cardinality(cited)
            /\ \A n \in 1..Len(generated.citations) :
                  generated.citations[n] = Citation(context[Nth(n) + 1])

C11_Witness ==
    /\ lastCall.op = "generate" /\ lastCall.outcome.ok
    /\ lastCall.outcome.content = <<"[", "2", "]", "[", "1", "]", "[", "2", "]">>
    /\ Len(lastCall.context) = 2
    /\ Len(generated.citations) = 2
    /\ generated.citations[1].chunkId = "a-1"
    /\ generated.citations[2].chunkId = "a-0"

(* C12: the confidence of the response generate returns is within [0, 1]   *)
(* (0 to 100 hundredths) for every context whose scores are in [-1, 1].    *)

C12_ConfidenceInRange ==
    lastCall.op = "generate" =>
        generated.confidence >= 0 /\ generated.confidence <= 100

\* The same where no score of the context is negative.
C12_ConfidenceInRangeForPositiveScores ==
    (lastCall.op = "generate"
        /\ \A n \in 1..Len(lastCall.context) : lastCall.context[n].score.num >= 0)
        => C12_ConfidenceInRange

(* C13: when the generation call fails, generate does not throw: its       *)
(* answer states the number of context passages, its citations are the     *)
(* first min(3, context length) context passages in context order and its  *)
(* confidence is 0.5; query returns normally too, also when the embedding  *)
(* provider failed as well.                                                *)

C13_FallbackResponse ==
    (lastCall.op \in {"generate", "query"} /\ ~lastCall.outcome.ok) =>
        LET context == lastCall.context
            cited == IF Len(context) < 3 THEN Len(context) ELSE 3
        IN  /\ ~lastCall.returned.threw
            /\ generated.answer[2] = ToString(Len(context))
            /\ Len(generated.citations) = cited
            /\ \A n \in 1..cited : generated.citations[n] = Citation(context[n])
            /\ generated.confidence = 50

C13_Witness ==
    /\ lastCall.op = "query" /\ ~lastCall.outcome.ok /\ lastCall.embeddingFailed
    /\ ~lastCall.returned.threw
    /\ Len(lastCall.context) = 3
    /\ generated.answer[2] = "3"
    /\ generated.confidence = 50

\* A failed generate call with more than three context passages.
C13_WitnessOfGenerate ==
    /\ lastCall.op = "generate" /\ ~lastCall.outcome.ok
    /\ Len(lastCall.context) = 4
    /\ Len(generated.citations) = 3


-----------------------------------------------------------------------------
(* Claims about the ingestion of documents.                                *)

\* The call f has taken a step.
Stepped(f) == flows'[f] # flows[f]

\* C14: for a text shorter than the minimum segment length of 50 characters
\* segmentClauses returns the empty sequence, and ingestDocument of such a
\* text calls the provider for no batch, indexes 0 chunks and leaves the
\* index as it was.
C14_ShortTextIndexesNothing ==
    [][\A f \in IngestFlows :
          Len(flows[f].text) < MinSegmentLength /\ Stepped(f) =>
              /\ segmentClauses(flows[f].text) = <<>>
              /\ flows'[f].clauses = <<>> /\ flows'[f].chunks = <<>>
              /\ flows'[f].calls = 0 /\ flows'[f].results = <<>>
              /\ flows'[f].pc \in {"embedded", "upserted", "done"}
              /\ flows'[f].chunksIndexed = 0
              /\ documents' = documents /\ embeddings' = embeddings]_vars

\* ingestDocument has returned for a text of 46 to 49 characters with a
\* numbered clause in it, and the index is the one it found.
C14_Witness ==
    /\ flows["i1"].pc = "done"
    /\ Len(flows["i1"].text) \in (MinSegmentLength - 4)..(MinSegmentLength - 1)
    /\ \E p \in 1..Len(flows["i1"].text) : NumberedAhead(flows["i1"].text, p)
    /\ flows["i1"].chunksIndexed = 0
    /\ store = OtherSource

\* The place in the concatenated segments where the k-th segment starts:
\* the charOffset of createChunks when it comes to that segment.
RECURSIVE CharOffset(_, _)
CharOffset(segments, k) ==
    IF k = 1 THEN 0 ELSE CharOffset(segments, k - 1) + Len(segments[k - 1])

\* The passage was cut from the k-th segment.
CutFrom(segments, k, chunk) ==
    /\ chunk.charStart >= CharOffset(segments, k)
    /\ chunk.charStart < CharOffset(segments, k) + Len(segments[k])

\* createChunks has returned in the call f.
Chunked(f) == flows[f].pc \notin {"idle", "hung"}

\* The pairs of consecutive passages of the call f that were cut from one
\* segment longer than chunkSize, each pair by the place of its earlier
\* passage.
WindowPairs(f) ==
    {n \in 1..(Len(flows[f].chunks) - 1) :
        \E k \in 1..Len(flows[f].clauses) :
            /\ Len(flows[f].clauses[k]) > service.chunkSize
            /\ CutFrom(flows[f].clauses, k, flows[f].chunks[n])
            /\ CutFrom(flows[f].clauses, k, flows[f].chunks[n + 1])}

\* charEnd of the earlier passage minus charStart of the later one
Overlap(f, n) == flows[f].chunks[n].charEnd - flows[f].chunks[n + 1].charStart

\* C15: every two consecutive passages createChunks cuts from a segment
\* longer than chunkSize overlap by exactly chunkOverlap characters, the last
\* two of the segment included.
C15_OverlapIsChunkOverlap ==
    Chunked("i1") =>
        \A n \in WindowPairs("i1") : Overlap("i1", n) = service.chunkOverlap

\* What createChunks does: two consecutive passages overlap by chunkOverlap
\* when the earlier one has chunkSize characters; an earlier passage that
\* the end of the segment cut short overlaps the next by fewer.
C15_FullWindowsOverlap ==
    Chunked("i1") =>
        \A n \in WindowPairs("i1") :
            IF Len(flows["i1"].chunks[n].content) = service.chunkSize
            THEN Overlap("i1", n) = service.chunkOverlap
            ELSE Overlap("i1", n) < service.chunkOverlap

\* A segment of 85 characters cut into windows of 60 that advance by 40:
\* the second window ends with the segment, and the third overlaps it by 5.
C15_ShortOverlap ==
    /\ Chunked("i1")
    /\ service.chunkSize = 60 /\ service.chunkOverlap = 20
    /\ flows["i1"].clauses = <<Letters(85)>>
    /\ Len(flows["i1"].chunks) = 3
    /\ WindowPairs("i1") = {1, 2}
    /\ Overlap("i1", 1) = 20 /\ Overlap("i1", 2) = 5

\* batchEmbed has returned in the call f.
Embedded(f) == flows[f].pc \notin {"idle", "hung", "embedding"}

\* The number of batches of at most BATCH_SIZE chunks that n chunks make.
Batches(n) == (n + BATCH_SIZE - 1) \div BATCH_SIZE

\* The batch the k-th chunk is in, and its place in that batch.
BatchOf(k) == ((k - 1) \div BATCH_SIZE) + 1
PlaceInBatch(k) == ((k - 1) % BATCH_SIZE) + 1

\* The vector the k-th chunk of the call f is due: the provider's vector at
\* its place in the response for its batch, the fallback vector when the
\* call for its batch failed or the response has no vector at that place.
VectorDue(f, k) ==
    LET outcome == flows[f].outcomes[BatchOf(k)]
    IN  IF outcome.ok /\ PlaceInBatch(k) <= Len(outcome.data)
        THEN outcome.data[PlaceInBatch(k)]
        ELSE generateMockEmbedding(flows[f].chunks[k].content)

\* batchEmbed returns the chunks it was given, in their order, each with
\* the vector it is due.
OneResultPerChunk(f) ==
    /\ Len(flows[f].results) = Len(flows[f].chunks)
    /\ \A k \in 1..Len(flows[f].chunks) :
          flows[f].results[k] = WithEmbedding(flows[f].chunks[k], VectorDue(f, k))

\* A response of the provider had fewer vectors than the batch had chunks.
ShortResponse(f) ==
    \E b \in 1..Len(flows[f].outcomes) :
        /\ flows[f].outcomes[b].ok
        /\ Len(flows[f].outcomes[b].data) <
              Len(BatchAt(flows[f].chunks, (b - 1) * BATCH_SIZE))

\* C16: whatever the provider does with each batch (it returns, it throws,
\* it returns fewer or more vectors than texts), batchEmbed calls it once per
\* batch of at most 100 chunks and returns one embedded chunk per chunk it
\* was given, in their order, with fallback vectors in the batches that
\* failed and the provider's vectors in the others.
C16_OneEmbeddedChunkPerChunk ==
    Embedded("i1") =>
        /\ flows["i1"].calls = Batches(Len(flows["i1"].chunks))
        /\ Len(flows["i1"].outcomes) = flows["i1"].calls
        /\ OneResultPerChunk("i1")

\* What batchEmbed does: the above, unless a response was short.
C16_OneEmbeddedChunkPerChunkUnlessShort ==
    Embedded("i1") =>
        /\ flows["i1"].calls = Batches(Len(flows["i1"].chunks))
        /\ Len(flows["i1"].outcomes) = flows["i1"].calls
        /\ ~ShortResponse("i1") => OneResultPerChunk("i1")

\* Two chunks and a response of one vector: batchEmbed returns three
\* chunks, the first with the provider's vector and then both with fallback
\* vectors.
C16_MoreResultsThanChunks ==
    /\ Embedded("i1")
    /\ Len(flows["i1"].chunks) = 2
    /\ Len(flows["i1"].outcomes[1].data) = 1
    /\ Len(flows["i1"].results) = 3
    /\ flows["i1"].results[1].id = flows["i1"].chunks[1].id
    /\ flows["i1"].results[2].id = flows["i1"].chunks[1].id
    /\ flows["i1"].results[1].embedding \in ProviderVectors
    /\ flows["i1"].results[2].embedding \notin ProviderVectors

-----------------------------------------------------------------------------
(* Claims about the index under upserts and under calls side by side.      *)

\* The number of entries the map m has for the key.
EntriesOf(m, key) == Cardinality({n \in 1..Len(m) : m[n].id = key})

\* The value the map m has for the key, Nil when it has none.
ValueOf(m, key) == IF MapHas(m, key) THEN MapGet(m, key) ELSE Nil

\* The chunks of an upsert that have the id, and the last of them.
WithId(chunks, id) == {n \in 1..Len(chunks) : chunks[n].id = id}
LatestOf(chunks, id) == chunks[Greatest(WithId(chunks, id))]

\* The vector search scores the passage id with, NoEmbedding when search
\* passes the id over.
SearchVector(docs, embs, id) ==
    IF MapHas(embs, id) /\ MapHas(docs, id) THEN MapGet(embs, id) ELSE NoEmbedding

\* C17: after every upsert the index has one entry for each id upserted so
\* far, and for each id the passage it stores and the vector search uses
\* are those of the latest upsert of that id, which is no vector when that
\* passage carries no embedding.  (An upsert leaves the ids it does not
\* name as they were, so the latest upsert of an id is the last call that
\* named it.)
C17_LatestUpsertStored ==
    [][lastCall'.op = "upsert" =>
          \A id \in Ids :
              IF WithId(lastCall'.chunks, id) # {}
              THEN /\ EntriesOf(documents', id) = 1
                   /\ EntriesOf(embeddings', id) <= 1
                   /\ MapGet(documents', id) = LatestOf(lastCall'.chunks, id)
                   /\ SearchVector(documents', embeddings', id)
                         = LatestOf(lastCall'.chunks, id).embedding
              ELSE /\ EntriesOf(documents', id) = EntriesOf(documents, id)
                   /\ EntriesOf(embeddings', id) = EntriesOf(embeddings, id)
                   /\ ValueOf(documents', id) = ValueOf(documents, id)
                   /\ ValueOf(embeddings', id) = ValueOf(embeddings, id)]_vars

\* The chunks of an upsert that have the id and carry an embedding.
WithVector(chunks, id) ==
    {n \in WithId(chunks, id) : chunks[n].embedding # NoEmbedding}

\* What upsert does: the passage stored is that of the latest upsert of the
\* id, and the vector search uses is that of the latest upsert of the id
\* that carried an embedding.
C17_LatestVectorKept ==
    [][lastCall'.op = "upsert" =>
          \A id \in Ids :
              IF WithId(lastCall'.chunks, id) # {}
              THEN /\ EntriesOf(documents', id) = 1
                   /\ EntriesOf(embeddings', id) <= 1
                   /\ MapGet(documents', id) = LatestOf(lastCall'.chunks, id)
                   /\ SearchVector(documents', embeddings', id)
                         = IF WithVector(lastCall'.chunks, id) # {}
                           THEN lastCall'.chunks[Greatest(WithVector(lastCall'.chunks, id))].embedding
                           ELSE SearchVector(documents, embeddings, id)
              ELSE /\ EntriesOf(documents', id) = EntriesOf(documents, id)
                   /\ EntriesOf(embeddings', id) = EntriesOf(embeddings, id)
                   /\ ValueOf(documents', id) = ValueOf(documents, id)
                   /\ ValueOf(embeddings', id) = ValueOf(embeddings, id)]_vars

\* search returns a passage that carries no embedding, scored with the
\* vector of an earlier upsert of its id.
C17_StaleVector ==
    /\ lastCall.op = "search"
    /\ \E n \in 1..Len(lastCall.returned) :
          /\ lastCall.returned[n].chunk.embedding = NoEmbedding
          /\ lastCall.returned[n].score
                = cosineSimilarity(lastCall.query,
                                   MapGet(embeddings, lastCall.returned[n].chunk.id))

\* The ids of the passages the search of the call r returned, and the ids
\* of the passages the ingestion f upserts.
IdsFound(r) == {flows[r].searched[n].chunk.id : n \in 1..Len(flows[r].searched)}
IdsOf(f) == {flows[f].results[n].id : n \in 1..Len(flows[f].results)}

\* The search of the call r has returned.
Searched(r) == flows[r].pc \in {"searched", "done"}

\* The search of the call r was cut to its topK.
CutToTopK(r) == Len(flows[r].searched) >= EffectiveTopK(NoOptions) * 2

\* The passage the ingestion f upserts for the id: the last of its results
\* with that id.
UpsertedBy(f, id) == LatestOf(flows[f].results, id)

\* C18: with ingestDocument and retrieve calls on the shared service taking
\* their steps in any order, every search finds of each upsert all passages
\* or none, each passage with the score of the vector it was upserted with;
\* and when the ingestions, of different sources, have all returned, the
\* index holds every passage of each, with its vector.
C18_UpsertsAreAtomic ==
    /\ \A r \in RetrieveFlows : Searched(r) =>
          /\ \A n \in 1..Len(flows[r].searched) :
                \E f \in IngestFlows :
                    /\ flows[f].pc \in {"upserted", "done"}
                    /\ flows[r].searched[n].chunk.id \in IdsOf(f)
                    /\ flows[r].searched[n].chunk
                          = UpsertedBy(f, flows[r].searched[n].chunk.id)
                    /\ flows[r].searched[n].score
                          = cosineSimilarity(flows[r].query,
                                UpsertedBy(f, flows[r].searched[n].chunk.id).embedding)
          /\ ~CutToTopK(r) =>
                \A f \in IngestFlows :
                    Embedded(f) =>
                        \/ IdsOf(f) \subseteq IdsFound(r)
                        \/ IdsOf(f) \cap IdsFound(r) = {}
    /\ (\A f \in IngestFlows : flows[f].pc = "done") =>
          \A f \in IngestFlows :
              /\ flows[f].chunksIndexed = Len(flows[f].results)
              /\ \A k \in 1..Len(flows[f].chunks) :
                    /\ EntriesOf(documents, flows[f].chunks[k].id) = 1
                    /\ EntriesOf(embeddings, flows[f].chunks[k].id) = 1
                    /\ MapGet(documents, flows[f].chunks[k].id)
                          = UpsertedBy(f, flows[f].chunks[k].id)
                    /\ MapGet(documents, flows[f].chunks[k].id).content
                          = flows[f].chunks[k].content
                    /\ MapGet(embeddings, flows[f].chunks[k].id)
                          = UpsertedBy(f, flows[f].chunks[k].id).embedding

\* Both ingestions, each of several passages, and the retrieval have
\* returned, and the search, made between the two upserts, found the passages
\* of the source "a", all of them, and none of the source "b".
C18_Witness ==
    /\ \A f \in Flows : flows[f].pc = "done"
    /\ Len(flows["i1"].chunks) > 1 /\ Len(flows["i2"].chunks) > 1
    /\ IdsFound("r1") = IdsOf("i1")
    /\ Len(documents) = Len(flows["i1"].chunks) + Len(flows["i2"].chunks)

-----------------------------------------------------------------------------
(* Claims about the middleware.                                            *)

\* The request is to one of the protected routes or to a path below it.
ToProtectedRoute(request) ==
    \E route \in PROTECTED_ROUTES :
        \/ request.pathname = route
        \/ startsWith(request.pathname, Append(route, "/"))

\* The token of a Bearer header.
TokenOf(value) == SubSeq(value, Len(Bearer) + 1, Len(value))

\* The request carries no Authorization header, a header that is no Bearer
\* header, or a Bearer header whose token is malformed: empty, shorter
\* than ten characters or without a dot.
Unauthenticated(request) ==
    \/ ~request.authorization.given
    \/ ~startsWith(request.authorization.value, Bearer)
    \/ Len(TokenOf(request.authorization.value)) < MinTokenLength
    \/ \A k \in 1..Len(TokenOf(request.authorization.value)) :
          TokenOf(request.authorization.value)[k] # "."

\* C19: the middleware never hands a request to a protected route that
\* carries no Authorization header, a header that is no Bearer header or a
\* malformed token to the route handler: it answers it as unauthorized (a
\* preflight request it answers itself, as any other).
C19_UnauthenticatedIsRefused ==
    exchange # NoExchange
    /\ ToProtectedRoute(exchange.request)
    /\ Unauthenticated(exchange.request)
    => /\ ~exchange.response.next
       /\ exchange.at # "handler"
       /\ exchange.request.method # "OPTIONS"
             => exchange.response.status = Unauthorized

\* What the middleware does: it warns of such a request and hands it to
\* the route handler, marked X-Auth-Status: unverified-dev-mode; the
\* requests to protected routes it hands on without the mark are those
\* that pass checkAuthentication.
C19_UnauthenticatedIsMarked ==
    exchange # NoExchange
    /\ ToProtectedRoute(exchange.request)
    /\ exchange.request.method # "OPTIONS"
    => /\ exchange.response.next
       /\ exchange.response.status # Unauthorized
       /\ Unauthenticated(exchange.request)
             <=> exchange.response.authStatus = "unverified-dev-mode"
       /\ Unauthenticated(exchange.request)
             <=> ~checkAuthentication(exchange.request).success

\* The handler of /api/ai/stream runs on a GET request that carries no
\* Authorization header.
C19_HandlerReached ==
    /\ exchange # NoExchange
    /\ exchange.at = "handler"
    /\ exchange.request.method = "GET"
    /\ exchange.request.pathname = <<"/", "a", "p", "i", "/", "a", "i", "/", "s", "t", "r", "e", "a", "m">>
    /\ exchange.request.authorization = NoHeader
    /\ exchange.response.authStatus = "unverified-dev-mode"

-----------------------------------------------------------------------------
(* Claim about the order of the events of a streaming session.             *)

\* The state the event e takes the session to from the state at: connected
\* from idle, progress and chunk events while streaming, one analysis, then
\* complete, with error from every state that is not terminal; "invalid"
\* when the session has no such step.
AfterEvent(at, e) ==
    CASE at = "idle" /\ IsConnected(e) -> "connected"
      [] at \in {"connected", "streaming"} /\ (IsProgress(e) \/ IsChunk(e)) -> "streaming"
      [] at \in {"connected", "streaming"} /\ IsAnalysis(e) -> "analysis"
      [] at \in {"connected", "streaming", "analysis"} /\ IsComplete(e) -> "complete"
      [] at \in {"connected", "streaming", "analysis"} /\ IsError(e) -> "error"
      [] OTHER -> "invalid"

\* The state of the session after the first n of the events.
RECURSIVE SessionState(_, _)
SessionState(events, n) ==
    IF n = 0 THEN "idle" ELSE AfterEvent(SessionState(events, n - 1), events[n])

\* C20: the events of a session are, at every moment, a run of the state
\* machine connected, progress and chunk events, at most one analysis,
\* complete: no progress or chunk event follows an analysis event, no event
\* follows a complete event, and no error event follows a complete event.
C20_EventsFollowStateMachine ==
    /\ SessionState(emitted, Len(emitted)) # "invalid"
    /\ \A m \in 1..Len(emitted) :
          /\ IsAnalysis(emitted[m]) =>
                \A n \in (m + 1)..Len(emitted) :
                    ~IsProgress(emitted[n]) /\ ~IsChunk(emitted[n])
          /\ IsComplete(emitted[m]) => m = Len(emitted)
    /\ \A n \in 1..Len(delivered) : delivered[n] = emitted[n]

\* A contract analysis has run to its end: connected, progress and chunk
\* events, one of them a progress event between chunks, the analysis and
\* complete, all read by the consumer.
C20_Witness ==
    /\ pc = "done" /\ mode = "analyze"
    /\ SessionState(emitted, Len(emitted)) = "complete"
    /\ IsAnalysis(emitted[Len(emitted) - 1])
    /\ \E n \in 2..(Len(emitted) - 2) :
          /\ IsChunk(emitted[n - 1]) /\ IsProgress(emitted[n]) /\ IsChunk(emitted[n + 1])
    /\ delivered = emitted

-----------------------------------------------------------------------------
(* Claim about the progress events of the mock path.                       *)

\* The session takes the mock path.
mockPath == valid /\ ~apiKey

\* The number of chunk events among the first n events.
ChunksSoFar(n) == Cardinality({m \in 1..n : IsChunk(emitted[m])})

\* The places of the progress events.
ProgressAt == {n \in 1..Len(emitted) : IsProgress(emitted[n])}

\* C21: on the mock path each progress event reports round(c / N * 100),
\* with c the number of chunk events emitted so far and N the number of
\* chunks of the canned text, and there is one progress event per 5 chunks.
C21_MockProgressIsShareOfChunks ==
    mockPath =>
        /\ \A n \in ProgressAt :
              emitted[n].progress = MockProgress(ChunksSoFar(n))
        /\ 5 * Cardinality(ProgressAt) <= ChunksSoFar(Len(emitted)) + 4
        /\ 5 * Cardinality(ProgressAt) >= ChunksSoFar(Len(emitted)) - 4

\* What streamMockAnalysis does: the progress event that follows the chunk
\* of index i reports round(i / N * 100), which leaves that chunk out, and
\* it follows the chunks of index 0, 5, 10, ...
C21_MockProgressLeavesOutLastChunk ==
    mockPath =>
        /\ \A n \in ProgressAt :
              /\ IsChunk(emitted[n - 1])
              /\ emitted[n - 1].chunkIndex % 5 = 0
              /\ ChunksSoFar(n) = emitted[n - 1].chunkIndex + 1
              /\ emitted[n].progress = MockProgress(ChunksSoFar(n) - 1)
        /\ \A n \in 1..(Len(emitted) - 1) :
              IsChunk(emitted[n]) /\ emitted[n].chunkIndex % 5 = 0
                  => IsProgress(emitted[n + 1])

\* The first progress event of a mock session reports 0 after one chunk.
C21_ZeroAfterFirstChunk ==
    /\ mockPath /\ pc = "done" /\ ~cancelled
    /\ Types(SubSeq(emitted, 1, 3)) = <<"connected", "chunk", "progress">>
    /\ emitted[3].progress = 0
    /\ MockProgress(1) > 0

-----------------------------------------------------------------------------
(* Further claims about the generator and about query.                     *)

\* generate has returned, called by itself or within query.
Generated == lastCall.op \in {"generate", "query"} /\ ~lastCall.returned.threw

\* C22: in every response generate returns, whether the generation call
\* succeeded or failed and whatever the context, the empty one included,
\* groundedOnSources is true exactly when there is a citation.
C22_GroundedIffCited ==
    Generated => (generated.groundedOnSources <=> generated.citations # <<>>)

\* What generate does: the above when the generation call succeeds; when it
\* fails groundedOnSources is true, with or without a citation.
C22_GroundedIffCitedOrFailed ==
    Generated =>
        IF lastCall.outcome.ok
        THEN generated.groundedOnSources <=> generated.citations # <<>>
        ELSE generated.groundedOnSources

\* The generation call failed on an empty context: the response has no
\* citation and says it is grounded on sources.
C22_GroundedWithoutCitation ==
    /\ Generated /\ ~lastCall.outcome.ok
    /\ lastCall.context = <<>>
    /\ generated.citations = <<>>
    /\ generated.groundedOnSources

-----------------------------------------------------------------------------
(* Further claims about segmentClauses and createChunks.                   *)

\* The characters of the text s from charStart to charEnd, as
\* String.prototype.slice gives them.
Span(s, charStart, charEnd) == SubSeq(s, charStart + 1, charEnd)

\* C23: the span of every passage of an ingested text is in the coordinates
\* of that text: the characters of the text from charStart to charEnd are
\* the content of the passage, also after segments that were trimmed,
\* separated by blank lines or dropped.
C23_SpansAreInSourceCoordinates ==
    Chunked("i1") =>
        \A k \in 1..Len(flows["i1"].chunks) :
            /\ flows["i1"].chunks[k].charEnd <= Len(flows["i1"].text)
            /\ Span(flows["i1"].text, flows["i1"].chunks[k].charStart,
                    flows["i1"].chunks[k].charEnd)
                 = flows["i1"].chunks[k].content

\* What createChunks does: the spans are in the coordinates of the kept,
\* trimmed segments laid end to end.
C23_SpansAreInSegmentCoordinates ==
    Chunked("i1") =>
        \A k \in 1..Len(flows["i1"].chunks) :
            Span(Join(flows["i1"].clauses), flows["i1"].chunks[k].charStart,
                 flows["i1"].chunks[k].charEnd)
              = flows["i1"].chunks[k].content

\* Two passages of 55 letters with a blank line between them: the second
\* has the span 55 to 110, and stands at 57 to 112 in the text.
C23_SpanBeforeItsPassage ==
    /\ Chunked("i1")
    /\ flows["i1"].text = Letters(55) \o <<"\n", "\n">> \o Letters(55)
    /\ Len(flows["i1"].chunks) = 2
    /\ flows["i1"].chunks[2].charStart = 55
    /\ flows["i1"].chunks[2].charEnd = 110
    /\ Span(flows["i1"].text, 57, 112) = flows["i1"].chunks[2].content


\* C24: with chunkOverlap < chunkSize every passage createChunks emits has
\* charStart < charEnd and a content of charEnd - charStart characters, at
\* most chunkSize; the charStart of the passages increases strictly in the
\* order they are emitted in, which is the order of the numbers their ids
\* end with.
C24_SpansAreOrdered ==
    Chunked("i1") /\ service.chunkOverlap < service.chunkSize =>
        /\ \A k \in 1..Len(flows["i1"].chunks) :
              /\ flows["i1"].chunks[k].charStart < flows["i1"].chunks[k].charEnd
              /\ Len(flows["i1"].chunks[k].content)
                   = flows["i1"].chunks[k].charEnd - flows["i1"].chunks[k].charStart
              /\ Len(flows["i1"].chunks[k].content) <= service.chunkSize
              /\ flows["i1"].chunks[k].id
                   = flows["i1"].source \o "-" \o ToString(k - 1)
        /\ \A k \in 1..(Len(flows["i1"].chunks) - 1) :
              flows["i1"].chunks[k].charStart < flows["i1"].chunks[k + 1].charStart

\* Windows of 60 characters that advance by 10 over two segments, the
\* second longer than a window: the last passage is shorter than a window.
C24_Witness ==
    /\ Chunked("i1")
    /\ service.chunkSize = 60 /\ service.chunkOverlap = 50
    /\ Len(flows["i1"].clauses) = 2
    /\ Len(flows["i1"].clauses[2]) > service.chunkSize
    /\ Len(flows["i1"].chunks) > 5
    /\ Len(Last(flows["i1"].chunks).content) < service.chunkSize


-----------------------------------------------------------------------------
(* Ingesting a source again.                                               *)

\* Two versions of a document, of one passage and of two, and a text too
\* short to be indexed.
ReingestTexts ==
    {Letters(30), Letters(55), Letters(56) \o <<"\n", "\n">> \o Letters(55)}

\* Two ingestions of the same source "a", of the same text or of different
\* texts, and a retrieval, on the service of IngestInit with an empty index.
ReingestInit ==
    /\ StreamIdle /\ IndexInit /\ NoRequest
    /\ service = Service([chunkSize |-> {60}, chunkOverlap |-> {20}])
    /\ \E texts \in [IngestFlows -> ReingestTexts] :
          flows = [f \in Flows |->
                      [IdleFlow(f, IF f \in IngestFlows THEN texts[f] ELSE <<>>)
                          EXCEPT !.source = "a"]]

ReingestSpec == ReingestInit /\ [][IngestNext]_vars

\* The entries of map m are in map after, with the values they had.
KeptIn(m, after) ==
    \A n \in 1..Len(m) :
        \E k \in 1..Len(after) : after[k].id = m[n].id /\ after[k].value = m[n].value

\* C25: once a passage is indexed, no later ingestDocument changes its
\* stored text, span or vector: ingesting the same source again leaves the
\* entries of the earlier ingestion as they were.
C25_IndexedEntriesNeverChange ==
    [][KeptIn(documents, documents') /\ KeptIn(embeddings, embeddings')]_vars

\* The second ingestion of "a" has replaced the text stored under "a-0" by
\* the first one.
C25_EntryReplaced ==
    /\ flows["i1"].pc = "done" /\ flows["i2"].pc = "done"
    /\ flows["i1"].chunksIndexed > 0 /\ flows["i2"].chunksIndexed > 0
    /\ flows["i1"].chunks[1].id = flows["i2"].chunks[1].id
    /\ flows["i1"].chunks[1].content # flows["i2"].chunks[1].content
    /\ EntriesOf(documents, flows["i1"].chunks[1].id) = 1


-----------------------------------------------------------------------------
(* A response of the embedding provider with another number of vectors     *)
(* than the batch has texts.                                               *)

Miscounted(f) ==
    \E b \in 1..Len(flows[f].outcomes) :
        /\ flows[f].outcomes[b].ok
        /\ Len(flows[f].outcomes[b].data) #
              Len(BatchAt(flows[f].chunks, (b - 1) * BATCH_SIZE))

\* C26: when the provider returns another number of vectors than the batch
\* has texts, the ingestion ends with an error: it keeps no passage with a
\* vector of that response or with a fallback vector, indexes none and
\* does not return a count of indexed passages.
C26_MiscountEndsIngestion ==
    Miscounted("i1") =>
        /\ flows["i1"].results = <<>>
        /\ flows["i1"].pc \notin {"upserted", "done"}
        /\ \A k \in 1..Len(flows["i1"].chunks) :
              ~MapHas(documents, flows["i1"].chunks[k].id)

\* ingestDocument has returned after a response one vector short: the
\* index holds a passage with a vector of that response and one with a
\* fallback vector.
C26_MiscountIndexed ==
    /\ Miscounted("i1") /\ ShortResponse("i1")
    /\ flows["i1"].pc = "done"
    /\ flows["i1"].chunksIndexed > Len(flows["i1"].chunks)
    /\ \E k \in 1..Len(embeddings) : embeddings[k].value \in ProviderVectors
    /\ \E k \in 1..Len(embeddings) :
          /\ embeddings[k].id # "b-0"
          /\ embeddings[k].value \notin ProviderVectors


-----------------------------------------------------------------------------
(* The options of retrieve.                                                *)

\* What retrieve returns of searched when it applies topK and minScore.
Applying(searched, options, topK, minScore) ==
    Slice(SelectSeq(IF options.filter.given
                    THEN SelectSeq(searched, LAMBDA r : PassesFilter(r, options.filter))
                    ELSE searched,
                    LAMBDA r : AtLeastTenths(r.score, minScore)),
          topK)

\* C27: retrieve applies the topK and the minScore of the caller whenever
\* they are given, and the defaults 5 and 0.3 only when they are omitted:
\* with a minScore of 0 the caller gets the passages that score between 0
\* and 0.3 too.
C27_GivenOptionsApplied ==
    lastCall.op = "retrieve" =>
        lastCall.returned.results =
            Applying(lastCall.searched, lastCall.options,
                     RequestedTopK(lastCall.options),
                     RequestedMinScore(lastCall.options))

\* The same for the options that are omitted or not 0.
C27_NonZeroOptionsApplied ==
    (/\ lastCall.op = "retrieve"
     /\ lastCall.options.topK # {0}
     /\ lastCall.options.minScore # {0}) => C27_GivenOptionsApplied

\* retrieve was called with a minScore of 0 and left out a passage of the
\* search that scores 0 or more and less than 0.3.
C27_ZeroMinScoreIgnored ==
    /\ lastCall.op = "retrieve"
    /\ lastCall.options.minScore = {0}
    /\ lastCall.options.topK = Omitted
    /\ ~lastCall.options.filter.given
    /\ \E n \in 1..Len(lastCall.searched) :
          /\ AtLeastTenths(lastCall.searched[n].score, 0)
          /\ ~AtLeastTenths(lastCall.searched[n].score, DefaultMinScore)
          /\ \A k \in 1..Len(lastCall.returned.results) :
                lastCall.returned.results[k].chunk.id # lastCall.searched[n].chunk.id


-----------------------------------------------------------------------------
(* The length filter of segmentClauses.                                    *)

\* Texts of up to MaxRuns runs: 25 letters, 26 letters, a blank line, a
\* space.  Their segments have 25, 26, 50, 51 and more characters.
MaxRuns == 4
SegmentRuns == {Letters(25), Letters(26), <<"\n", "\n">>, <<" ">>}
SegmentTexts == {Join(ps) : ps \in UNION {[1..n -> SegmentRuns] : n \in 0..MaxRuns}}

\* One ingestion of one of these texts by ragService into an empty index.
SegmentInit ==
    /\ StreamIdle /\ IndexInit /\ NoRequest
    /\ service = ragService
    /\ \E text \in SegmentTexts :
          flows = [f \in Flows |-> IdleFlow(f, IF f = "i1" THEN text ELSE <<>>)]

SegmentSpec == SegmentInit /\ [][DocNext]_vars

\* The segments of text after the three splits, trimmed, before the filter.
TrimmedSegments(text) ==
    With(FlatMapSplit(3, FlatMapSplit(2, FlatMapSplit(1, <<text>>))),
         LAMBDA split : [k \in 1..Len(split) |-> Trim(split[k])])

\* C28: segmentClauses drops the trimmed segments shorter than 50
\* characters and no other: it returns those of 50 characters and more, in
\* the order of the document, each by itself.
C28_SegmentsOfFiftyKept ==
    flows["i1"].pc # "idle" =>
        flows["i1"].clauses =
            SelectSeq(TrimmedSegments(flows["i1"].text),
                      LAMBDA seg : Len(seg) >= MinSegmentLength)

\* The same with the bound the filter has: more than 50 characters.
C28_SegmentsOverFiftyKept ==
    flows["i1"].pc # "idle" =>
        flows["i1"].clauses =
            SelectSeq(TrimmedSegments(flows["i1"].text),
                      LAMBDA seg : Len(seg) > MinSegmentLength)

\* A text of more than 50 characters whose one segment has 50 after trim:
\* nothing is kept of it.
C28_FiftyDropped ==
    /\ flows["i1"].pc # "idle"
    /\ Len(flows["i1"].text) > MinSegmentLength
    /\ \E k \in 1..Len(TrimmedSegments(flows["i1"].text)) :
          Len(TrimmedSegments(flows["i1"].text)[k]) = MinSegmentLength
    /\ flows["i1"].clauses = <<>>


-----------------------------------------------------------------------------
(* The calls of controller.close() of a session.                           *)

CloseCalls == {n \in 1..Len(ops) : IsCloseCall(ops[n])}

\* C29: in a session the consumer did not cancel, on every path, the
\* controller is closed exactly once: close is not called on a controller
\* that is closed already, the start callback does not fail, and every
\* event enqueued is read or still queued.
C29_ClosedExactlyOnce ==
    (finished /\ ~cancelled) =>
        /\ Cardinality(CloseCalls) = 1
        /\ \A n \in CloseCalls : ops[n] = "close"
        /\ pc # "rejected"
        /\ ctl.state # "errored"
        /\ delivered \o ctl.queue = emitted

\* The same for the sessions of a valid request.
C29_ClosedOnceWhenValid == valid => C29_ClosedExactlyOnce

\* A request with neither prompt nor caseId: close is called in the
\* validation branch and again in the finally block, the stream is errored
\* and the two events it had queued are gone.
C29_ClosedTwice ==
    /\ pc = "done" /\ ~cancelled /\ ~valid
    /\ Cardinality(CloseCalls) = 2
    /\ Last(ops) = "stream_errored"
    /\ \E n \in CloseCalls : ops[n] = "close_throws"
    /\ ctl.state = "errored"
    /\ Len(emitted) = 2 /\ delivered = <<>> /\ ctl.queue = <<>>


-----------------------------------------------------------------------------
(* The metrics of query.                                                   *)

\* An index of up to MaxIndexed passages of one source, more than the
\* default topK, each with one of two vectors of magnitude above zero.
MaxIndexed == 6
IndexedVectors == {<<1, 1, 0>>, <<0, 1, 1>>}
Passage(k, embedding) ==
    [id |-> "a-" \o ToString(k - 1), source |-> "a", clauseType |-> "general",
     embedding |-> embedding]

QueryInit ==
    /\ StreamIdle /\ IngestIdle /\ NoRequest
    /\ lastCall = [op |-> "none"]
    /\ \E n \in 0..MaxIndexed : \E vs \in [1..n -> IndexedVectors] :
       \E filled \in {upsert([documents |-> <<>>, embeddings |-> <<>>],
                             [k \in 1..n |-> Passage(k, vs[k])])} :
          /\ documents = filled.documents
          /\ embeddings = filled.embeddings
          /\ upserts = n

QueryNext ==
    \/ Query
    \/ Return

QuerySpec == QueryInit /\ [][QueryNext]_vars

\* C30: the metrics query returns, whether the generation succeeded or
\* failed, have chunksUsed <= chunksRetrieved <= topK, chunksUsed the
\* number of citations of the response and chunksRetrieved the number of
\* passages of the context handed to generate.
C30_MetricsWithinTopK ==
    lastCall.op = "query" =>
        /\ lastCall.returned.metrics.chunksUsed
              <= lastCall.returned.metrics.chunksRetrieved
        /\ lastCall.returned.metrics.chunksRetrieved <= DefaultTopK
        /\ lastCall.returned.metrics.chunksUsed
              = Len(lastCall.returned.response.citations)
        /\ lastCall.returned.metrics.chunksRetrieved = Len(lastCall.context)

\* A query on an index where more than topK passages score above minScore:
\* topK passages are retrieved; the generation succeeded and cited two.
C30_Witness ==
    /\ lastCall.op = "query"
    /\ Len(embeddings) > DefaultTopK
    /\ \A k \in 1..Len(embeddings) :
          AtLeastTenths(cosineSimilarity(lastCall.query, embeddings[k].value),
                        DefaultMinScore)
    /\ lastCall.outcome.ok
    /\ lastCall.returned.metrics.chunksRetrieved = DefaultTopK
    /\ lastCall.returned.metrics.chunksUsed = 2

\* The same index when the generation failed: three of the five passages
\* are cited.
C30_WitnessFallback ==
    /\ lastCall.op = "query"
    /\ Len(embeddings) > DefaultTopK
    /\ ~lastCall.outcome.ok
    /\ lastCall.returned.metrics.chunksRetrieved = DefaultTopK
    /\ lastCall.returned.metrics.chunksUsed = FallbackCitations

====
